---- MODULE Spec2Model ----
(***************************************************************************)
(* Model of the GTM research pipeline (ataata107/gtm_openfunnel):          *)
(*   - the compiled stage graph of graph/gtm_graph.py with its single      *)
(*     conditional back-edge and the stage functions' effect on GTMState;  *)
(*   - the semaphore-bounded asyncio fan-out that every stage uses;        *)
(*   - the Aggregation stage's dedup / cap loops.                          *)
(* Scores are floats in the code; the model keeps them in hundredths       *)
(* (0.8 is 80, 0.7 is 70), which preserves every comparison made.          *)
(***************************************************************************)
EXTENDS Integers, Sequences, FiniteSets, TLC

VARIABLES
    \* ---- compiled graph (graph/gtm_graph.py) and GTMState (graph/state.py)
    active,                       \* nodes scheduled to run
    run_status,                   \* "running" | "ended" | "failed"
    serper_api_key,               \* is SERPER_API_KEY set in the environment
    search_depth,
    max_iterations,
    max_parallel_searches,
    iteration_count,
    search_strategies_generated,
    extracted_companies,
    final_findings,
    quality_metrics,
    \* ---- observers of a run
    passes,                       \* completed passes through the loop body
    evals,                        \* evaluations of should_continue_research
    decision,                     \* its last result: "none" | "continue" | "stop"
    \* ---- GTMState.search_results_serper and the list objects it refers to
    search_results_serper,        \* dict: domain key -> list object (an index of list_objects)
    list_objects,                 \* the contents of the list objects
    search_results_website,       \* dict: domain key -> list of snippets
    \* ---- locals of multi_source_search_agent kept for inspection
    all_company_queries,          \* per company: the queries generated for it
    query_results,                \* results of run_serper_searches: per query, in query order, (query, result)
    query_answers,                \* per company: what the query LLM answered
    \* ---- one CircuitBreaker (utils/circuit_breaker.py) and its callers
    cb_config,                    \* CircuitBreakerConfig
    cb_state,                     \* self.state: "CLOSED" | "OPEN" | "HALF_OPEN"
    failure_count,
    success_count,
    last_failure_time,
    now,                          \* time.time()
    call_pc,                      \* per caller: "idle" | "in_func" (awaiting func)
    call_entered,                 \* per caller: the breaker's state when func was invoked
    call_result,                  \* per caller: how its last call() ended
    calls,                        \* call()s made
    recorded,                     \* outcomes recorded by _on_success / _on_failure, in order
    \* ---- the InMemoryCache (utils/cache.py) and its clock
    cache,                        \* self.cache: key -> (value, expiry)
    clock,                        \* time.time()
    cache_op,                     \* the last get or set and what it returned
    last_set,                     \* per key: value, time and ttl argument of the last set
    \* ---- one research session of app/api.py
    job_status,                   \* "none" | "queued" | "processing" | "completed" | "failed"
    job_error,                    \* the session carries an "error" message
    job_results,                  \* "none" | "full" | "empty": the results stored
    \* ---- evaluator_agent's per-entity units, kept for inspection
    evaluations,                  \* per entity: "skipped" | "ok" | "raise"
    confidence_levels,            \* per entity: structured.confidence_level, or "none"
    \* ---- the run and a second run that differs in confidence_threshold only
    confidence_threshold,         \* GTMState.confidence_threshold, in hundredths
    twin_threshold,               \* confidence_threshold of the second run
    twin_decision,                \* the second run's last decision on the same state
    \* ---- search sub-tasks that share the cache (run_serper, run_serper_news)
    st_pc,                        \* per sub-task: "idle" | "requesting"
    st_key,                       \* per sub-task: the cache key of its query and depth
    st_response,                  \* per sub-task: "none" | "cached" | "200" | "non200" | "exception"
    st_return,                    \* per sub-task: what it returned last
    \* ---- extract_companies_from_news_queries: one unit per query
    nx_limit,                     \* max_parallel
    nx_responses,                 \* per query: what the LLM call gives (input)
    nx_task,                      \* per query: "waiting" | "running" | "done"
    nx_seen_domains,              \* seen_domains, shared by the units
    nx_unique,                    \* per query: the unit's return value
    nx_completion,                \* the queries in the order their units completed
    nx_phase,                     \* "idle" | "running" | "returned"
    nx_all_companies,             \* all_companies, the function's return value
    \* ---- app/simple_api.py: one request of /research/stream
    sx_future,                    \* the workflow thread: "idle" | "running" | "returned" | "raised"
    sx_stdout,                    \* all characters the workflow thread has written
    sx_buffer,                    \* LogCapture.buffer
    sx_log_queue,                 \* log_queue
    sx_yielded,                   \* the events generate() has yielded, in order
    sx_pc,                        \* where generate() is
    \* ---- locals of company_aggregator_agent kept for inspection
    search_results,               \* per strategy: "text" or the "Error:" sentinel
    all_extracted_companies,      \* per strategy: the extracted candidates
    extracted_after_search,       \* extracted_companies after extract_companies_async
    news_companies,               \* the news extractor's answer
    seen_domains,
    llm_outcomes,                 \* per strategy: "none" (no extraction call) | "ok" | "raise"
    \* ---- one semaphore-bounded fan-out (asyncio.Semaphore + asyncio.gather)
    fo_kind,                      \* the unit of work fanned out
    fo_items,                     \* number of input items
    fo_limit,                     \* max_parallel_searches / max_concurrent
    fo_batch_size,                \* items per gather
    fo_batch,                     \* the batch being gathered
    sem_value,                    \* the semaphore's free slots
    task,                         \* per item: "pending" | "waiting" | "running" | "done" | "cancelled"
    outcome,                      \* per item: "none" | "ok" | "raise" (its external call)
    completion,                   \* items in the order their units completed
    fo_phase,                     \* "running" | "returned" | "raised"
    fo_return                     \* the list the fan-out hands back

graphVars == <<active, run_status, serper_api_key, search_depth, max_iterations,
               max_parallel_searches,
               iteration_count, search_strategies_generated, extracted_companies,
               final_findings, quality_metrics, passes, evals, decision>>
aggVars == <<search_results, all_extracted_companies, extracted_after_search,
             news_companies, seen_domains, llm_outcomes>>
fanVars == <<fo_kind, fo_items, fo_limit, fo_batch_size, fo_batch, sem_value, task,
             outcome, completion, fo_phase, fo_return>>
evidenceVars == <<search_results_serper, list_objects, search_results_website>>
searchVars == <<all_company_queries, query_results, query_answers>>
cbVars == <<cb_config, cb_state, failure_count, success_count, last_failure_time, now,
            call_pc, call_entered, call_result, calls, recorded>>
cacheVars == <<cache, clock, cache_op, last_set>>
jobVars == <<job_status, job_error, job_results>>
\* what the stages of the graph leave alone: utils/ and the API session
evalVars == <<evaluations, confidence_levels>>
twinVars == <<confidence_threshold, twin_threshold, twin_decision>>
subtaskVars == <<st_pc, st_key, st_response, st_return>>
newsVars == <<nx_limit, nx_responses, nx_task, nx_seen_domains, nx_unique, nx_completion,
              nx_phase, nx_all_companies>>
streamVars == <<sx_future, sx_stdout, sx_buffer, sx_log_queue, sx_yielded, sx_pc>>
sideVars == <<subtaskVars, newsVars, streamVars>>
utilVars == <<cbVars, cacheVars, jobVars, evalVars, twinVars, sideVars>>
vars == <<graphVars, aggVars, fanVars, evidenceVars, searchVars, utilVars>>

(***************************************************************************)
(* Bounds of the model.                                                    *)
(***************************************************************************)
MaxIterations == 3
MaxStrategies == 3
MaxItems == 3
MaxLimit == 2
MaxVaried == 3
MaxCallers == 2
MaxCalls == 7
MaxTime == 60
MaxTtl == 2
MaxClock == 4
MaxSnippets == 2
MaxQueries == 3
MaxNewlines == 2
MaxChars == 5

(***************************************************************************)
(* Python dicts: a function on the keys present.                           *)
(***************************************************************************)
EmptyDict == [k \in {} |-> 0]

Get(d, k, default) == IF k \in DOMAIN d THEN d[k] ELSE default

Range(s) == {s[i] : i \in DOMAIN s}

(***************************************************************************)
(* graph/state.py                                                          *)
(***************************************************************************)
\* CompanyMeta built from an ExtractedCompany: name and domain (source_url unset)
CompanyMeta(name, domain) == [name |-> name, domain |-> domain]

\* the candidates the extraction calls may name: two sightings of one domain
\* under different names, and two further domains
cA  == CompanyMeta("Stripe", "stripe.com")
cA2 == CompanyMeta("Stripe Inc", "stripe.com")
cB  == CompanyMeta("Adyen", "adyen.com")
cC  == CompanyMeta("Plaid", "plaid.com")
cD  == CompanyMeta("Wise", "wise.com")
cE  == CompanyMeta("Wise Payments", "wisepayments.com")

\* a long answer: one candidate short of the "quick" limit, all domains distinct
BulkDomain(i) == "bulk" \o ToString(i) \o ".com"

SearchDepths == {"quick", "standard", "comprehensive"}

\* the strategies the query LLM may answer with (possibly none)
Strategy(i) == CASE i = 1 -> "a" [] i = 2 -> "b" [] i = 3 -> "c" [] i = 4 -> "d" [] OTHER -> "e"

StrategyLists == { [i \in 1..n |-> Strategy(i)] : n \in 0..MaxStrategies }

(***************************************************************************)
(* agents/company_aggregator_agent.py                                      *)
(***************************************************************************)
\* SEARCH_DEPTH_CONFIGS[depth]["max_companies"], "standard" for unknown depths
MaxCompaniesOf(depth) ==
    CASE depth = "quick" -> 50
      [] depth = "comprehensive" -> 200
      [] OTHER -> 100

\* extraction that also runs on the text of the "Error:" sentinel
extract_single_result_of_sentinel(result, llm) ==
    IF llm.kind = "raise" THEN <<>> ELSE llm.companies

\* extract_single_result: the sentinel of a failed search and a raising LLM
\* call both give no candidates
extract_single_result(result, llm) ==
    IF result = "Error" THEN <<>>
    ELSE IF llm.kind = "raise" THEN <<>>
    ELSE llm.companies

\* a membership test that never finds the domain
NotSeenAlways(company, seen) == TRUE

\* the membership test that guards admission
NotSeen(company, seen) == company.domain \notin seen

\* admission that leaves seen_domains as it was
AdmitUnrecorded(acc, company) ==
    [extracted |-> Append(acc.extracted, company), seen |-> acc.seen]

\* admission of one candidate: seen_domains.add + extracted_companies.append
Admit(acc, company) ==
    [extracted |-> Append(acc.extracted, company),
     seen |-> acc.seen \cup {company.domain}]

\* for company in companies: ... break once the limit is reached
RECURSIVE InnerLoop(_, _, _, _)
InnerLoop(companies, i, acc, max_companies) ==
    IF i > Len(companies) THEN acc
    ELSE IF NotSeen(companies[i], acc.seen)
         THEN LET acc2 == Admit(acc, companies[i])
              IN  IF Len(acc2.extracted) >= max_companies
                  THEN acc2
                  ELSE InnerLoop(companies, i + 1, acc2, max_companies)
         ELSE InnerLoop(companies, i + 1, acc, max_companies)

\* for companies in all_extracted_companies: ... break once the limit is reached
RECURSIVE OuterLoop(_, _, _, _)
OuterLoop(all, j, acc, max_companies) ==
    IF j > Len(all) THEN acc
    ELSE LET acc2 == InnerLoop(all[j], 1, acc, max_companies)
         IN  IF Len(acc2.extracted) >= max_companies
             THEN acc2
             ELSE OuterLoop(all, j + 1, acc2, max_companies)

\* extract_news_companies: a raise is caught, no URLs adds nothing, otherwise the
\* news candidates pass through the same seen_domains
NewsLoop(news, acc, max_companies) ==
    IF news.kind \in {"raise", "no_urls"} THEN acc
    ELSE InnerLoop(news.companies, 1, acc, max_companies)

\* the search-result phase walking the results last to first
SearchPhaseReversed(all, max_companies) ==
    OuterLoop([j \in 1..Len(all) |-> all[Len(all) + 1 - j]], 1,
              [extracted |-> <<>>, seen |-> {}], max_companies)

\* extract_companies_async: the search-result phase, from empty accumulators
SearchPhase(all, max_companies) ==
    OuterLoop(all, 1, [extracted |-> <<>>, seen |-> {}], max_companies)

\* the stage's result for the given external answers
Aggregate(all, news, max_companies) ==
    NewsLoop(news, SearchPhase(all, max_companies), max_companies)

(***************************************************************************)
(* utils/connection_pool.py: MemoryOptimizedProcessor                      *)
(***************************************************************************)
\* key_func(item) if key_func else str(item): the key functions are named,
\* "domain" for lambda c: c.domain and "str" for the default
KeyOf(item, key_func) == IF key_func = "domain" THEN item.domain ELSE item

\* for item in results: keep the item when its key is new
RECURSIVE DeduplicateLoop(_, _, _, _, _)
DeduplicateLoop(results, i, seen, unique_results, key_func) ==
    IF i > Len(results) THEN unique_results
    ELSE LET key == KeyOf(results[i], key_func)
         IN  IF key \notin seen
             THEN DeduplicateLoop(results, i + 1, seen \cup {key},
                                  Append(unique_results, results[i]), key_func)
             ELSE DeduplicateLoop(results, i + 1, seen, unique_results, key_func)

\* deduplicate_results(results, key_func)
deduplicate_results(results, key_func) ==
    DeduplicateLoop(results, 1, {}, <<>>, key_func)

\* what one strategy's sub-tasks met: the search answer ("text" or the "Error:"
\* sentinel) and the extraction LLM's answer
Ok(companies) == [kind |-> "ok", companies |-> companies]
Raise == [kind |-> "raise", companies |-> <<>>]
NoUrls == [kind |-> "no_urls", companies |-> <<>>]
Unit(search, llm) == [search |-> search, llm |-> llm]

Bulk == [i \in 1..(MaxCompaniesOf("quick") - 1) |-> CompanyMeta(BulkDomain(i), BulkDomain(i))]

CandidateLists == { <<>>, <<cA>>, <<cB>>, <<cC>>, <<cA, cA2>>, <<cB, cA2>> }

\* (the LLM's answer to a failed search is what it would say if it were asked)
UnitOutcomes ==
    {Unit("Error", Raise), Unit("Error", Ok(<<cC>>)), Unit("text", Raise)}
        \cup {Unit("text", Ok(l)) : l \in CandidateLists}

\* the answers to n strategies: any of the above, or the long answer to the
\* first strategy followed by short ones
UnitSeqs(n) ==
    [1..n -> UnitOutcomes]
        \cup { [j \in 1..n |-> IF j = 1 THEN Unit("text", Ok(Bulk)) ELSE u[j]] :
                 u \in [1..n -> {Unit("Error", Raise), Unit("text", Ok(<<cA>>)),
                                 Unit("text", Ok(<<cB, cA2>>))}] }

NewsOutcomes ==
    {Raise, NoUrls} \cup {Ok(l) : l \in {<<cA2>>, <<cD, cB>>, <<cC, cA>>, <<cB, cC>>}}

\* the smaller input sets used when the whole graph runs
GraphUnitSeqs(n) ==
    [1..n -> {Unit("Error", Raise), Unit("text", Ok(<<cA>>)), Unit("text", Ok(<<cA2, cB>>))}]

GraphNewsOutcomes == {Raise, Ok(<<cB>>)}

(***************************************************************************)
(* agents/multi_source_search_agent.py                                     *)
(* Query strings are kept as sequences of pieces (words); Python's         *)
(* "x in y" on strings is "x is a contiguous run of the pieces of y",      *)
(* which finds no match the code would not find.                           *)
(***************************************************************************)
\* the pieces of a company name
Words(s) ==
    CASE s = "Stripe Inc" -> <<"Stripe", "Inc">>
      [] s = "Wise Payments" -> <<"Wise", "Payments">>
      [] OTHER -> <<s>>

\* str.lower() on one piece
Lower(w) ==
    CASE w = "Stripe" -> "stripe"
      [] w = "Inc" -> "inc"
      [] w = "Adyen" -> "adyen"
      [] w = "Plaid" -> "plaid"
      [] w = "Wise" -> "wise"
      [] w = "Payments" -> "payments"
      [] OTHER -> w

LowerSeq(q) == [i \in 1..Len(q) |-> Lower(q[i])]

\* sub in q
Contains(sub, q) ==
    \E i \in 0..(Len(q) - Len(sub)) : SubSeq(q, i + 1, i + Len(sub)) = sub

\* state.research_goal
research_goal == <<"fraud">>

\* s[:n]
Take(s, n) == SubSeq(s, 1, IF Len(s) < n THEN Len(s) ELSE n)

\* build_queries_async, except branch: the five fallback queries
FallbackQueries(company) ==
    LET name == Words(company.name)
        domain == <<company.domain>>
    IN  << name \o research_goal,
           domain \o research_goal,
           name \o <<"site:">> \o domain \o research_goal,
           name \o <<"company">> \o research_goal,
           name \o <<"technology">> \o research_goal >>

\* the company name put in front of every query
EnhanceQueryAlways(company, query) == Words(company.name) \o query

\* build_queries_async: the company name is put in front of a query in which
\* the lowercased name, domain or first word of the name does not occur
EnhanceQuery(company, query) ==
    LET name == Words(company.name)
        q == LowerSeq(query)
        company_in_query == \/ Contains(LowerSeq(name), q)
                            \/ Contains(<<Lower(company.domain)>>, q)
                            \/ Contains(<<Lower(name[1])>>, q)
    IN  IF company_in_query THEN query ELSE name \o query

\* build_queries_async for the LLM's answer: a raise gives the fallback
\* queries, an empty answer three default queries; at most five are returned
build_queries_async(company, llm) ==
    IF llm.kind = "raise" THEN Take(FallbackQueries(company), 5)
    ELSE LET queries == IF llm.queries = <<>>
                        THEN Take(FallbackQueries(company), 3)
                        ELSE llm.queries
         IN  Take([i \in 1..Len(queries) |-> EnhanceQuery(company, queries[i])], 5)

\* generate_queries_for_company: a raise that escapes build_queries_async (the
\* feedback text built before its try) gives two simple queries
generate_queries_for_company(company, llm) ==
    IF llm.kind = "raise_prompt"
    THEN << Words(company.name) \o research_goal, <<company.domain>> \o research_goal >>
    ELSE build_queries_async(company, llm)

\* all_queries.extend(queries) over all_company_queries
RECURSIVE FlattenQueries(_)
FlattenQueries(lists) ==
    IF lists = <<>> THEN <<>> ELSE Head(lists) \o FlattenQueries(Tail(lists))

\* one snippet of the organic results returned for a query
Snippet(query, n) == [of |-> query, n |-> n]

\* run_serper: (query, response), or (query, []) when the request fails
run_serper_search(query, response) ==
    [query |-> query, result |-> IF response.ok THEN response.snippets ELSE <<>>]

\* the key under which a query's snippets are stored: the domain of the first
\* company whose name or domain occurs in the query, else the general bucket
MatchedKey(companies, query) ==
    LET hits == {i \in DOMAIN companies :
                    \/ Contains(Words(companies[i].name), query)
                    \/ Contains(<<companies[i].domain>>, query)}
    IN  IF hits = {} THEN "unknown"
        ELSE companies[CHOOSE i \in hits : \A j \in hits : i <= j].domain

\* a merge that stores the new result in place of the list held
ExtendReplacing(acc, key, result) ==
    IF key \in DOMAIN acc.map
    THEN [map |-> acc.map, lists |-> [acc.lists EXCEPT ![acc.map[key]] = result]]
    ELSE [map |-> [k \in DOMAIN acc.map \cup {key} |->
                      IF k = key THEN Len(acc.lists) + 1 ELSE acc.map[k]],
          lists |-> Append(acc.lists, result)]

\* search_results_serper.setdefault(key, []).extend(result): the dict maps a
\* key to a list object; an existing key's list object is extended in place,
\* a new key gets a new list object
Extend(acc, key, result) ==
    IF key \in DOMAIN acc.map
    THEN [map |-> acc.map, lists |-> [acc.lists EXCEPT ![acc.map[key]] = @ \o result]]
    ELSE [map |-> [k \in DOMAIN acc.map \cup {key} |->
                      IF k = key THEN Len(acc.lists) + 1 ELSE acc.map[k]],
          lists |-> Append(acc.lists, result)]

\* for query, result in results: match and extend
RECURSIVE MergeLoop(_, _, _, _)
MergeLoop(companies, results, i, acc) ==
    IF i > Len(results) THEN acc
    ELSE MergeLoop(companies, results, i + 1,
                   Extend(acc, MatchedKey(companies, results[i].query), results[i].result))

\* run_serper_searches: dict(state.search_results_serper or {}) is a new dict
\* holding the same list objects, then the loop over the gathered results
run_serper_searches(companies, results, map, lists) ==
    MergeLoop(companies, results, 1, [map |-> map, lists |-> lists])

\* the LLM's answers to query generation for one company
LLMRaise == [kind |-> "raise", queries |-> <<>>]
PromptRaise == [kind |-> "raise_prompt", queries |-> <<>>]
LLMQueries(queries) == [kind |-> "ok", queries |-> queries]

\* answers the query LLM may give for a company: none, the name as given, the
\* name in lower case, the first word of the name only and no name at all, and
\* six queries of which three do not name the company
QueryAnswers(company) ==
    LET name == Words(company.name)
    IN  { LLMRaise, PromptRaise, LLMQueries(<<>>),
          LLMQueries(<< name \o research_goal >>),
          LLMQueries(<< LowerSeq(name) \o research_goal >>),
          LLMQueries(<< <<name[1]>> \o research_goal, <<"ai">> \o research_goal >>),
          LLMQueries(<< <<"ai">>, <<company.domain>>, <<"ml">>, research_goal,
                        LowerSeq(name), <<"risk">> >>) }

\* the answer in the runs of the graph: one query naming the company
GraphQueryAnswers(company) ==
    { LLMQueries(<< Words(company.name) \o research_goal >>) }

\* the answer to one request
SerperFailed == [ok |-> FALSE, snippets |-> <<>>]
SerperOk(snippets) == [ok |-> TRUE, snippets |-> snippets]

\* Serper's answers to the queries: each of the first MaxVaried fails or gives
\* one snippet, the others give one snippet
SerperAnswers(queries) ==
    { [i \in 1..Len(queries) |->
          IF i \in failed THEN SerperFailed ELSE SerperOk(<<Snippet(queries[i], 1)>>)] :
      failed \in SUBSET {i \in 1..Len(queries) : i <= MaxVaried} }

\* in the runs of the graph: every request answers, or every request fails
GraphSerperAnswers(queries) ==
    { [i \in 1..Len(queries) |-> SerperOk(<<Snippet(queries[i], 1)>>)],
      [i \in 1..Len(queries) |-> SerperFailed] }

(***************************************************************************)
(* graph/gtm_graph.py                                                      *)
(***************************************************************************)
Nodes == {"QueryAgent", "CompanyAggregatorAgent", "SearchAgent", "QualityEvaluatorAgent"}

\* builder.add_edge(...)
Edges ==
    { <<"QueryAgent", "CompanyAggregatorAgent">>,
      <<"CompanyAggregatorAgent", "SearchAgent">>,
      <<"SearchAgent", "QualityEvaluatorAgent">> }

Successors(n) == {e[2] : e \in {d \in Edges : d[1] = n}}

\* the scores the quality LLM may report, in hundredths, and the bars they meet
CoverageBar == 80
QualityBar == 70

CoverageScores == {50, 79, 80, 85}
QualityScores == {69, 70, 75, 90}

\* should_continue_research with a missing score read as 1.0
should_continue_research_absent_ok(ic, mi, qm) ==
    LET coverage_score == Get(qm, "coverage_score", 100)
        quality_score == Get(qm, "quality_score", 100)
    IN  IF ic >= mi
        THEN FALSE
        ELSE coverage_score < CoverageBar \/ quality_score < QualityBar

\* should_continue_research with the iteration limit tested by > instead of >=
should_continue_research_late(ic, mi, qm) ==
    LET coverage_score == Get(qm, "coverage_score", 0)
        quality_score == Get(qm, "quality_score", 0)
    IN  IF ic > mi
        THEN FALSE
        ELSE coverage_score < CoverageBar \/ quality_score < QualityBar

\* should_continue_research(state)
should_continue_research(ic, mi, qm) ==
    LET coverage_score == Get(qm, "coverage_score", 0)
        quality_score == Get(qm, "quality_score", 0)
    IN  IF ic >= mi
        THEN FALSE
        ELSE coverage_score < CoverageBar \/ quality_score < QualityBar

\* GTMState.confidence_threshold: the default, and the values a caller may set
DefaultThreshold == 80
Thresholds == {0, DefaultThreshold}

\* no second run is considered
TwinIdle ==
    /\ confidence_threshold = DefaultThreshold
    /\ twin_threshold = DefaultThreshold
    /\ twin_decision = "none"

\* a conditional edge that takes the state's confidence_threshold for its bars
DecideByThreshold(ct, ic, mi, qm) ==
    LET coverage_score == Get(qm, "coverage_score", 0)
        quality_score == Get(qm, "quality_score", 0)
    IN  IF ic >= mi
        THEN FALSE
        ELSE coverage_score < ct \/ quality_score < ct

\* the conditional edge on a state whose confidence_threshold is ct: the
\* function reads iteration_count, max_iterations and quality_metrics
Decide(ct, ic, mi, qm) == should_continue_research(ic, mi, qm)

\* the back-edge pointed at the search node instead of the query node
ConditionalTargetSearch(continue) == IF continue THEN "SearchAgent" ELSE "__end__"

\* builder.add_conditional_edges("QualityEvaluatorAgent", ..., {True: "QueryAgent",
\* False: "__end__"})
ConditionalTarget(continue) == IF continue THEN "QueryAgent" ELSE "__end__"

\* GTMState.max_parallel_searches: the default
DefaultParallel == 20

\* the values a caller may hand in: none at all, or the default
ParallelSearches == {0, DefaultParallel}

\* asyncio.Semaphore(n) with "async with sem" around every unit: a unit enters
\* only when n >= 1; with n = 0 every unit waits and gather never returns
SemaphoreAdmits(n) == n >= 1

\* a node returned: the nodes its edges schedule
Returned(n) ==
    /\ active' = (active \ {n}) \cup Successors(n)
    /\ run_status' = run_status

\* a node raised: graph.invoke raises and nothing further runs
Raised ==
    /\ active' = {}
    /\ run_status' = "failed"

(***************************************************************************)
(* The stage functions                                                     *)
(***************************************************************************)
\* the response appended to the strategies of the state
StrategiesMerged(old, response) == old \o response

\* agents/query_agent.py: update={"search_strategies_generated": response...}
StrategiesAfterQuery(old, response) == response

\* agents/query_agent.py: the structured LLM call either raises or answers with
\* a list that replaces search_strategies_generated
query_agent ==
    /\ run_status = "running"
    /\ "QueryAgent" \in active
    /\ \/ /\ \E response \in StrategyLists :
                search_strategies_generated' =
                   StrategiesAfterQuery(search_strategies_generated, response)
          /\ Returned("QueryAgent")
       \/ /\ Raised
          /\ UNCHANGED search_strategies_generated
    /\ UNCHANGED <<serper_api_key, search_depth, max_iterations, max_parallel_searches, iteration_count,
                   extracted_companies, final_findings, quality_metrics,
                   passes, evals, decision, aggVars, fanVars, evidenceVars, searchVars, utilVars>>

\* agents/company_aggregator_agent.py: the locals of one call, for the answers
\* of its external calls
AggregatorLocals(units, news) ==
    LET results == [j \in 1..Len(units) |-> units[j].search]
        all == [j \in 1..Len(units) |-> extract_single_result(results[j], units[j].llm)]
        max_companies == MaxCompaniesOf(search_depth)
        acc == Aggregate(all, news, max_companies)
    IN  [search_results |-> results, all_extracted_companies |-> all,
         extracted_after_search |-> SearchPhase(all, max_companies).extracted,
         extracted_companies |-> acc.extracted, seen_domains |-> acc.seen,
         llm_outcomes |-> [j \in 1..Len(units) |->
                            IF results[j] = "Error" THEN "none" ELSE units[j].llm.kind]]

\* the stage; observed keeps the call's locals visible after it returned and
\* draws the answers of the external calls from the larger sets
company_aggregator_agent(observed) ==
    /\ run_status = "running"
    /\ "CompanyAggregatorAgent" \in active
    /\ IF search_strategies_generated = <<>> \/ ~serper_api_key
       THEN /\ Raised
            /\ UNCHANGED <<extracted_companies, aggVars>>
       ELSE /\ SemaphoreAdmits(max_parallel_searches)
            /\ \E units \in (IF observed THEN UnitSeqs(Len(search_strategies_generated))
                                         ELSE GraphUnitSeqs(Len(search_strategies_generated))),
                  news \in (IF observed THEN NewsOutcomes ELSE GraphNewsOutcomes) :
                  LET locals == AggregatorLocals(units, news)
                  IN  /\ extracted_companies' = locals.extracted_companies
                      /\ IF observed
                         THEN /\ search_results' = locals.search_results
                              /\ all_extracted_companies' = locals.all_extracted_companies
                              /\ extracted_after_search' = locals.extracted_after_search
                              /\ news_companies' = news
                              /\ seen_domains' = locals.seen_domains
                              /\ llm_outcomes' = locals.llm_outcomes
                         ELSE UNCHANGED aggVars
            /\ Returned("CompanyAggregatorAgent")
    /\ UNCHANGED <<serper_api_key, search_depth, max_iterations, max_parallel_searches, iteration_count,
                   search_strategies_generated, final_findings, quality_metrics,
                   passes, evals, decision, fanVars, evidenceVars, searchVars, utilVars>>

\* the counter bumped twice in one pass
NewIterationCountTwice(ic) == ic + 2

\* agents/multi_source_search_agent.py: new_iteration_count
NewIterationCount(ic) == ic + 1

\* the query LLM's answers, one per company
QueryAnswerChoices(companies, observed) ==
    LET answers(c) == IF observed THEN QueryAnswers(companies[c])
                      ELSE GraphQueryAnswers(companies[c])
    IN  {llm \in [DOMAIN companies -> UNION {answers(c) : c \in DOMAIN companies}] :
            \A c \in DOMAIN companies : llm[c] \in answers(c)}

\* the stage; observed keeps the call's locals visible after it returned and
\* draws the answers of the external calls from the larger sets
multi_source_search_agent(observed) ==
    /\ run_status = "running"
    /\ "SearchAgent" \in active
    /\ IF extracted_companies = <<>> \/ ~serper_api_key
       THEN /\ Raised
            /\ UNCHANGED <<iteration_count, evidenceVars, searchVars>>
       ELSE /\ SemaphoreAdmits(max_parallel_searches)
            /\ \E llm \in QueryAnswerChoices(extracted_companies, observed) :
                  LET generated == [c \in DOMAIN extracted_companies |->
                                      generate_queries_for_company(extracted_companies[c], llm[c])]
                      queries == FlattenQueries(generated)
                  IN  \E serper \in (IF observed THEN SerperAnswers(queries)
                                                 ELSE GraphSerperAnswers(queries)) :
                         LET gathered == [i \in 1..Len(queries) |->
                                            run_serper_search(queries[i], serper[i])]
                             merged == run_serper_searches(extracted_companies, gathered,
                                                           search_results_serper, list_objects)
                         IN  /\ search_results_serper' = merged.map
                             /\ list_objects' = merged.lists
                             /\ UNCHANGED search_results_website
                             /\ IF observed
                                THEN /\ all_company_queries' = generated
                                     /\ query_results' = gathered
                                     /\ query_answers' = llm
                                ELSE UNCHANGED searchVars
            /\ iteration_count' = NewIterationCount(iteration_count)
            /\ Returned("SearchAgent")
    /\ UNCHANGED <<serper_api_key, search_depth, max_iterations, max_parallel_searches,
                   search_strategies_generated, extracted_companies, final_findings,
                   quality_metrics, passes, evals, decision, aggVars, fanVars, utilVars>>

\* agents/quality_evaluator_agent.py: the metrics written when the analysis succeeds
QualityMetrics(coverage, quality) ==
    [coverage_score |-> coverage, quality_score |-> quality]

\* the stage without its early return for a state that has no findings
QualityEvaluatorReturnUnguarded ==
    /\ SemaphoreAdmits(max_parallel_searches)
    /\ \/ UNCHANGED quality_metrics
       \/ \E c \in CoverageScores, q \in QualityScores :
              quality_metrics' = QualityMetrics(c, q)

\* no findings: the input state; a raise anywhere in the analysis: the input
\* state; otherwise quality_metrics is replaced
QualityEvaluatorReturn ==
    IF final_findings = <<>>
    THEN UNCHANGED quality_metrics
    ELSE /\ SemaphoreAdmits(max_parallel_searches)
         /\ \/ UNCHANGED quality_metrics
            \/ \E c \in CoverageScores, q \in QualityScores :
                   quality_metrics' = QualityMetrics(c, q)

\* the node and the conditional edge evaluated on the state it returned
quality_evaluator_agent ==
    /\ run_status = "running"
    /\ "QualityEvaluatorAgent" \in active
    /\ QualityEvaluatorReturn
    /\ twin_decision' = IF Decide(twin_threshold, iteration_count, max_iterations,
                                  quality_metrics')
                        THEN "continue" ELSE "stop"
    /\ LET continue == Decide(confidence_threshold, iteration_count, max_iterations,
                              quality_metrics')
           target == ConditionalTarget(continue)
       IN  /\ decision' = IF continue THEN "continue" ELSE "stop"
           /\ active' = (active \ {"QualityEvaluatorAgent"}) \cup ({target} \ {"__end__"})
           /\ run_status' = IF active' = {} THEN "ended" ELSE "running"
    /\ passes' = passes + 1
    /\ evals' = evals + 1
    /\ UNCHANGED <<serper_api_key, search_depth, max_iterations, max_parallel_searches, iteration_count,
                   search_strategies_generated, extracted_companies, final_findings,
                   aggVars, fanVars, evidenceVars, searchVars, cbVars, cacheVars,
                   jobVars, evalVars, confidence_threshold, twin_threshold, sideVars>>

(***************************************************************************)
(* agents/evaluator_agent.py (a stage function; no node of the graph)      *)
(***************************************************************************)
\* evaluator_agent's units are not examined
EvalIdle == evaluations = <<>> /\ confidence_levels = <<>>

\* CompanyFinding as evaluate_single_company builds it (scores in hundredths)
CompanyFinding(domain, confidence_score, evidence_sources) ==
    [domain |-> domain, confidence_score |-> confidence_score,
     evidence_sources |-> evidence_sources]

\* return None
None == [domain |-> "None"]

\* the confidence levels the evaluation LLM may report, or its call raises
EvaluationAnswers == {"High", "Medium", "Low", "Unsure", "raise"}

\* the table read without a default: an unknown level scores nothing
ConfidenceScoreNoDefault(level) ==
    CASE level = "High" -> 90
      [] level = "Medium" -> 60
      [] level = "Low" -> 30
      [] OTHER -> 0

\* {"High": 0.9, "Medium": 0.6, "Low": 0.3}.get(level, 0.5)
ConfidenceScore(level) ==
    CASE level = "High" -> 90
      [] level = "Medium" -> 60
      [] level = "Low" -> 30
      [] OTHER -> 50

\* the snippets merged for a domain: serper first, then website
evidence_snippets(domain) ==
    (IF domain \in DOMAIN search_results_serper
     THEN list_objects[search_results_serper[domain]] ELSE <<>>)
    \o (IF domain \in DOMAIN search_results_website
        THEN search_results_website[domain] ELSE <<>>)

\* a unit that evaluates an entity whatever evidence it has
evaluate_single_company_unconditional(company, llm) ==
    IF llm = "raise" THEN None
    ELSE CompanyFinding(company.domain, ConfidenceScore(llm),
                        Len(evidence_snippets(company.domain)))

\* evaluate_single_company: None without evidence and when the LLM call raises
evaluate_single_company(company, llm) ==
    IF evidence_snippets(company.domain) = <<>> THEN None
    ELSE IF llm = "raise" THEN None
    ELSE CompanyFinding(company.domain, ConfidenceScore(llm),
                        Len(evidence_snippets(company.domain)))

\* the stage: raises without any evidence map; otherwise one unit per entity
\* under the semaphore, and the findings that are not None in entity order
evaluator_agent ==
    /\ run_status = "running"
    /\ "EvaluatorAgent" \in active
    /\ IF search_results_serper = EmptyDict /\ search_results_website = EmptyDict
       THEN /\ Raised
            /\ UNCHANGED <<final_findings, evaluations, confidence_levels>>
       ELSE /\ SemaphoreAdmits(max_parallel_searches)
            /\ \E llm \in [DOMAIN extracted_companies -> EvaluationAnswers] :
                  LET all_findings == [i \in DOMAIN extracted_companies |->
                                         evaluate_single_company(extracted_companies[i], llm[i])]
                  IN  /\ final_findings' = SelectSeq(all_findings, LAMBDA f : f # None)
                      /\ confidence_levels' =
                            [i \in DOMAIN extracted_companies |->
                               IF evidence_snippets(extracted_companies[i].domain) = <<>>
                                  \/ llm[i] = "raise"
                               THEN "none" ELSE llm[i]]
                      /\ evaluations' =
                            [i \in DOMAIN extracted_companies |->
                               IF evidence_snippets(extracted_companies[i].domain) = <<>>
                               THEN "skipped"
                               ELSE IF llm[i] = "raise" THEN "raise" ELSE "ok"]
            /\ Returned("EvaluatorAgent")
    /\ UNCHANGED <<serper_api_key, search_depth, max_iterations, max_parallel_searches,
                   iteration_count, search_strategies_generated, extracted_companies,
                   quality_metrics, passes, evals, decision, aggVars, fanVars,
                   evidenceVars, searchVars, cbVars, cacheVars, jobVars, twinVars, sideVars>>

(***************************************************************************)
(* utils/cache.py: InMemoryCache, the global cache instance                *)
(***************************************************************************)
Keys == {"k1", "k2"}
Values == {"v1", "v2"}
\* ttl arguments; 0 stands for the falsy ones (None, 0)
TTLs == 0..MaxTtl

\* self.default_ttl
default_ttl == 3600

\* ttl = ttl or self.default_ttl
EffectiveTtl(ttl) == IF ttl = 0 THEN default_ttl ELSE ttl

\* an entry that is expired as soon as it is stored
ExpiryAtSet(t, ttl) == t

\* expiry = time.time() + ttl
Expiry(t, ttl) == t + ttl

\* dict assignment d[k] = e
Put(d, k, e) == [x \in DOMAIN d \cup {k} |-> IF x = k THEN e ELSE d[x]]

\* del d[k]
Del(d, k) == [x \in DOMAIN d \ {k} |-> d[x]]

NoOp == [op |-> "none", key |-> "none", result |-> "none"]

\* InMemoryCache.set: returns True
cache_set(k, v, ttl) ==
    /\ cache' = Put(cache, k, [value |-> v, expiry |-> Expiry(clock, EffectiveTtl(ttl))])
    /\ cache_op' = [op |-> "set", key |-> k, result |-> "True"]
    /\ last_set' = Put(last_set, k, [value |-> v, at |-> clock, ttl |-> ttl])
    /\ UNCHANGED clock

\* InMemoryCache.get: the value of a live entry; an expired entry is deleted
\* and None returned; None for a missing key
cache_get(k) ==
    /\ IF k \in DOMAIN cache
       THEN IF cache[k].expiry > clock
            THEN /\ cache_op' = [op |-> "get", key |-> k, result |-> cache[k].value]
                 /\ UNCHANGED cache
            ELSE /\ cache' = Del(cache, k)
                 /\ cache_op' = [op |-> "get", key |-> k, result |-> "None"]
       ELSE /\ cache_op' = [op |-> "get", key |-> k, result |-> "None"]
            /\ UNCHANGED cache
    /\ UNCHANGED <<clock, last_set>>

\* time.time() moves on
CacheTick ==
    /\ clock < MaxClock
    /\ clock' = clock + 1
    /\ UNCHANGED <<cache, cache_op, last_set>>

\* the cache is not used
CacheIdle ==
    /\ cache = EmptyDict
    /\ clock = 0
    /\ cache_op = NoOp
    /\ last_set = EmptyDict

(***************************************************************************)
(* The search sub-tasks that use the cache: run_serper of                  *)
(* company_aggregator_agent.py and run_serper_news of news_search_agent.py *)
(***************************************************************************)
\* two sub-tasks run at a time
Subtasks == {1, 2}

\* ttl=7200 of both sub-tasks, on the model's clock
search_ttl == MaxTtl

\* what the external request may do: answer 200 with a text (possibly empty),
\* answer another status, or raise
Responses ==
    {[kind |-> "200", text |-> v] : v \in Values \cup {""}}
        \cup {[kind |-> "non200", text |-> "Error"], [kind |-> "exception", text |-> "Error"]}

\* a sub-task that stores whatever came back
StoresAnyResponse(kind) == TRUE

\* if response.status_code == 200: ... cache.set_search_results...
StoresResponse(kind) == kind = "200"

\* "if cached_results:" - None and empty results are falsy
Truthy(cached_results) == cached_results \notin {"None", ""}

\* the sub-task up to its request: the cache is asked first and a truthy
\* cached value is returned without a request
run_serper_begin(t, k) ==
    /\ st_pc[t] = "idle"
    /\ cache_get(k)
    /\ st_key' = [st_key EXCEPT ![t] = k]
    /\ IF Truthy(cache_op'.result)
       THEN /\ st_response' = [st_response EXCEPT ![t] = "cached"]
            /\ st_return' = [st_return EXCEPT ![t] = cache_op'.result]
            /\ UNCHANGED st_pc
       ELSE /\ st_response' = [st_response EXCEPT ![t] = "none"]
            /\ st_return' = [st_return EXCEPT ![t] = "none"]
            /\ st_pc' = [st_pc EXCEPT ![t] = "requesting"]

\* the request came back: a 200 answer is stored and returned, any other
\* status and an exception give the "Error: ..." string ([] for news)
run_serper_end(t, response) ==
    /\ st_pc[t] = "requesting"
    /\ IF StoresResponse(response.kind)
       THEN cache_set(st_key[t], response.text, search_ttl)
       ELSE UNCHANGED cacheVars
    /\ st_response' = [st_response EXCEPT ![t] = response.kind]
    /\ st_return' = [st_return EXCEPT ![t] = response.text]
    /\ st_pc' = [st_pc EXCEPT ![t] = "idle"]
    /\ UNCHANGED st_key

\* no sub-task is examined
SubtaskIdle ==
    /\ st_pc = <<>>
    /\ st_key = <<>>
    /\ st_response = <<>>
    /\ st_return = <<>>

(***************************************************************************)
(* agents/news_extractor_agent.py: extract_companies_from_news_queries     *)
(***************************************************************************)
\* "Filter out duplicates": the candidates whose domain is not in seen_domains
\* yet, each added to seen_domains as it is kept
RECURSIVE FilterOutDuplicates(_, _, _, _)
FilterOutDuplicates(companies, i, seen, unique) ==
    IF i > Len(companies) THEN [unique |-> unique, seen |-> seen]
    ELSE IF companies[i].domain \notin seen
         THEN FilterOutDuplicates(companies, i + 1, seen \cup {companies[i].domain},
                                  Append(unique, companies[i]))
         ELSE FilterOutDuplicates(companies, i + 1, seen, unique)

\* process_single_query after its LLM call: [] when the call raised
process_single_query(response, seen) ==
    IF response.kind = "raise" THEN [unique |-> <<>>, seen |-> seen]
    ELSE FilterOutDuplicates(response.companies, 1, seen, <<>>)

\* "Combine all results with limit check": the units' lists in query order,
\* cut once max_companies entities are held
CombineResults(lists, max_companies) ==
    Take(FlattenQueries(lists), IF max_companies < 1 THEN 1 ELSE max_companies)

\* async with sem: the units enter in the order of their creation while a
\* slot is free
NewsAcquire(q) ==
    /\ nx_phase = "running"
    /\ nx_task[q] = "waiting"
    /\ \A p \in 1..(q - 1) : nx_task[p] # "waiting"
    /\ Cardinality({p \in DOMAIN nx_task : nx_task[p] = "running"}) < nx_limit
    /\ nx_task' = [nx_task EXCEPT ![q] = "running"]
    /\ UNCHANGED <<nx_limit, nx_responses, nx_seen_domains, nx_unique, nx_completion,
                   nx_phase, nx_all_companies>>

\* the LLM call of a unit ends: the unit filters its companies and returns
NewsComplete(q) ==
    /\ nx_phase = "running"
    /\ nx_task[q] = "running"
    /\ LET r == process_single_query(nx_responses[q], nx_seen_domains)
       IN  /\ nx_unique' = [nx_unique EXCEPT ![q] = r.unique]
           /\ nx_seen_domains' = r.seen
    /\ nx_task' = [nx_task EXCEPT ![q] = "done"]
    /\ nx_completion' = Append(nx_completion, q)
    /\ UNCHANGED <<nx_limit, nx_responses, nx_phase, nx_all_companies>>

\* gather returned: the lists are combined and the function returns
NewsReturn ==
    /\ nx_phase = "running"
    /\ \A q \in DOMAIN nx_task : nx_task[q] = "done"
    /\ nx_all_companies' = CombineResults(nx_unique, MaxCompaniesOf(search_depth))
    /\ nx_phase' = "returned"
    /\ UNCHANGED <<nx_limit, nx_responses, nx_task, nx_seen_domains, nx_unique, nx_completion>>

\* the news extractor is not examined
NewsIdle ==
    /\ nx_limit = 0
    /\ nx_responses = <<>>
    /\ nx_task = <<>>
    /\ nx_seen_domains = {}
    /\ nx_unique = <<>>
    /\ nx_completion = <<>>
    /\ nx_phase = "idle"
    /\ nx_all_companies = <<>>

(***************************************************************************)
(* app/simple_api.py: LogCapture and the generator of /research/stream     *)
(***************************************************************************)
NL == "\n"
Blank == " "

\* str.split('\n'): the pieces between the newlines, one more than newlines
RECURSIVE SplitLines(_, _, _)
SplitLines(s, piece, pieces) ==
    IF s = <<>> THEN Append(pieces, piece)
    ELSE IF Head(s) = NL THEN SplitLines(Tail(s), <<>>, Append(pieces, piece))
    ELSE SplitLines(Tail(s), Append(piece, Head(s)), pieces)

split(s) == SplitLines(s, <<>>, <<>>)

\* str.strip() over the characters of the model
RECURSIVE lstrip(_)
lstrip(s) == IF s # <<>> /\ Head(s) = Blank THEN lstrip(Tail(s)) ELSE s

RECURSIVE rstrip(_)
rstrip(s) == IF s # <<>> /\ s[Len(s)] = Blank THEN rstrip(SubSeq(s, 1, Len(s) - 1)) ELSE s

strip(s) == rstrip(lstrip(s))

Event(type, message) == [type |-> type, message |-> message]

\* stream_log: one 'log' event on the queue
stream_log(q, log_line) == Append(q, Event("log", log_line))

\* the loop of LogCapture.write over lines[:-1]
RECURSIVE SendLines(_, _)
SendLines(lines, q) ==
    IF lines = <<>> THEN q
    ELSE SendLines(Tail(lines),
                   IF strip(Head(lines)) # <<>> THEN stream_log(q, strip(Head(lines))) ELSE q)

\* LogCapture.write(text), called by the workflow thread
write(text) ==
    /\ sx_future = "running"
    /\ sx_stdout' = sx_stdout \o text
    /\ LET buffer == sx_buffer \o text
           lines == split(buffer)
       IN IF \E i \in DOMAIN text : text[i] = NL
          THEN /\ sx_buffer' = lines[Len(lines)]
               /\ sx_log_queue' = SendLines(SubSeq(lines, 1, Len(lines) - 1), sx_log_queue)
          ELSE /\ sx_buffer' = buffer
               /\ UNCHANGED sx_log_queue
    /\ UNCHANGED <<sx_future, sx_yielded, sx_pc>>

\* run_graph returns: the future is done with a result
run_graph_returns ==
    /\ sx_future = "running"
    /\ sx_future' = "returned"
    /\ UNCHANGED <<sx_stdout, sx_buffer, sx_log_queue, sx_yielded, sx_pc>>

\* graph.invoke raises: the future is done with an exception
run_graph_raises ==
    /\ sx_future = "running"
    /\ sx_future' = "raised"
    /\ UNCHANGED <<sx_stdout, sx_buffer, sx_log_queue, sx_yielded, sx_pc>>

future_done == sx_future \in {"returned", "raised"}

yield(event) == sx_yielded' = Append(sx_yielded, event)

\* generate(): the two 'status' events, then the workflow is submitted
generate_start ==
    /\ sx_pc = "start"
    /\ sx_yielded' = sx_yielded \o <<Event("status", <<>>), Event("status", <<>>)>>
    /\ sx_future' = "running"
    /\ sx_pc' = "while"
    /\ UNCHANGED <<sx_stdout, sx_buffer, sx_log_queue>>

\* while not future.done():
generate_while ==
    /\ sx_pc = "while"
    /\ sx_pc' = IF future_done THEN "result" ELSE "get"
    /\ UNCHANGED <<sx_future, sx_stdout, sx_buffer, sx_log_queue, sx_yielded>>

\* the body of the loop: one entry is yielded, or the queue is empty and the
\* loop breaks when the future is done and sleeps when it is not
generate_get ==
    /\ sx_pc = "get"
    /\ IF sx_log_queue # <<>>
       THEN /\ yield(Head(sx_log_queue))
            /\ sx_log_queue' = Tail(sx_log_queue)
            /\ sx_pc' = "while"
       ELSE /\ sx_pc' = IF future_done THEN "result" ELSE "while"
            /\ UNCHANGED <<sx_log_queue, sx_yielded>>
    /\ UNCHANGED <<sx_future, sx_stdout, sx_buffer>>

\* final_state = future.result(): the workflow's exception is raised here and
\* caught by the handler of generate(), which yields the 'error' event
generate_result ==
    /\ sx_pc = "result"
    /\ IF sx_future = "raised"
       THEN /\ yield(Event("error", <<>>))
            /\ sx_pc' = "end"
       ELSE /\ sx_pc' = "remaining"
            /\ UNCHANGED sx_yielded
    /\ UNCHANGED <<sx_future, sx_stdout, sx_buffer, sx_log_queue>>

\* while not log_queue.empty(): yield log_queue.get_nowait()
generate_remaining ==
    /\ sx_pc = "remaining"
    /\ IF sx_log_queue # <<>>
       THEN /\ yield(Head(sx_log_queue))
            /\ sx_log_queue' = Tail(sx_log_queue)
            /\ UNCHANGED sx_pc
       ELSE /\ sx_pc' = "results"
            /\ UNCHANGED <<sx_log_queue, sx_yielded>>
    /\ UNCHANGED <<sx_future, sx_stdout, sx_buffer>>

\* the 'results' event (the full response, or the fallback of the same type)
generate_results ==
    /\ sx_pc = "results"
    /\ yield(Event("results", <<>>))
    /\ sx_pc' = "complete"
    /\ UNCHANGED <<sx_future, sx_stdout, sx_buffer, sx_log_queue>>

\* the 'complete' event
generate_complete ==
    /\ sx_pc = "complete"
    /\ yield(Event("complete", <<>>))
    /\ sx_pc' = "end"
    /\ UNCHANGED <<sx_future, sx_stdout, sx_buffer, sx_log_queue>>

\* no request of /research/stream is examined
StreamIdle ==
    /\ sx_future = "idle"
    /\ sx_stdout = <<>>
    /\ sx_buffer = <<>>
    /\ sx_log_queue = <<>>
    /\ sx_yielded = <<>>
    /\ sx_pc = "idle"

\* nothing outside the graph, the breaker, the cache and the session is examined
SideIdle == SubtaskIdle /\ NewsIdle /\ StreamIdle

\* app/api.py: no session
JobIdle ==
    /\ job_status = "none"
    /\ job_error = FALSE
    /\ job_results = "none"

(***************************************************************************)
(* utils/circuit_breaker.py: one CircuitBreaker called by concurrent       *)
(* coroutines. Time is in seconds; None (no failure yet) is NoTime.        *)
(***************************************************************************)
\* CircuitBreakerConfig(): the defaults, and the three configured breakers
\* (success_threshold is left at its default by all three)
CircuitBreakerConfig(failure_threshold, recovery_timeout, success_threshold) ==
    [failure_threshold |-> failure_threshold, recovery_timeout |-> recovery_timeout,
     success_threshold |-> success_threshold]

DefaultConfig == CircuitBreakerConfig(5, 60, 2)
serper_circuit_breaker == CircuitBreakerConfig(3, 30, 2)
openai_circuit_breaker == CircuitBreakerConfig(2, 60, 2)
news_api_circuit_breaker == CircuitBreakerConfig(3, 45, 2)

Configs == {DefaultConfig, serper_circuit_breaker, openai_circuit_breaker,
            news_api_circuit_breaker}

\* last_failure_time is None
NoTime == 0 - 1

Callers == 1..MaxCallers

\* a reset that is attempted whenever a failure has been recorded
can_attempt_reset_early(last, t, config) == last # NoTime

\* _can_attempt_reset
can_attempt_reset(last, t, config) ==
    IF last = NoTime THEN FALSE ELSE t - last >= config.recovery_timeout

\* a success that leaves the failure count as it is
FailureCountKept(fc) == fc

\* _on_success: self.failure_count = 0
FailureCountAfterSuccess(fc) == 0

\* a half-open breaker that closes on any success
ClosesAlways(sc, config) == TRUE

\* _on_success: self.success_count >= self.config.success_threshold
Closes(sc, config) == sc >= config.success_threshold

\* a success that closes the breaker whenever it is not closed
on_success_closes_open ==
    /\ failure_count' = FailureCountAfterSuccess(failure_count)
    /\ IF cb_state # "CLOSED"
       THEN /\ cb_state' = "CLOSED"
            /\ success_count' = 0
       ELSE /\ cb_state' = cb_state
            /\ success_count' = success_count + 1
    /\ UNCHANGED last_failure_time

\* _on_success
on_success ==
    /\ failure_count' = FailureCountAfterSuccess(failure_count)
    /\ IF cb_state = "HALF_OPEN" /\ Closes(success_count + 1, cb_config)
       THEN /\ cb_state' = "CLOSED"
            /\ success_count' = 0
       ELSE /\ cb_state' = cb_state
            /\ success_count' = success_count + 1
    /\ UNCHANGED last_failure_time

\* a failure time that is set by the first failure only
LastFailureTimeFirst(last, t) == IF last = NoTime THEN t ELSE last

\* _on_failure: self.last_failure_time = time.time()
LastFailureTimeAfterFailure(last, t) == t

\* _on_failure
on_failure ==
    /\ failure_count' = failure_count + 1
    /\ success_count' = 0
    /\ last_failure_time' = LastFailureTimeAfterFailure(last_failure_time, now)
    /\ cb_state' = IF cb_state = "CLOSED" /\ failure_count + 1 >= cb_config.failure_threshold
                   THEN "OPEN"
                   ELSE IF cb_state = "HALF_OPEN" THEN "OPEN" ELSE cb_state

\* call(), up to the await: an open breaker either moves to half-open or
\* raises CircuitBreakerOpenError; otherwise func is invoked
call_begin(t) ==
    /\ call_pc[t] = "idle"
    /\ calls < MaxCalls
    /\ calls' = calls + 1
    /\ IF cb_state = "OPEN" /\ ~can_attempt_reset(last_failure_time, now, cb_config)
       THEN /\ call_result' = [call_result EXCEPT ![t] = "CircuitBreakerOpenError"]
            /\ UNCHANGED <<cb_state, failure_count, call_pc, call_entered>>
       ELSE /\ cb_state' = IF cb_state = "OPEN" THEN "HALF_OPEN" ELSE cb_state
            /\ failure_count' = IF cb_state = "OPEN" THEN 0 ELSE failure_count
            /\ call_pc' = [call_pc EXCEPT ![t] = "in_func"]
            /\ call_entered' = [call_entered EXCEPT ![t] = cb_state']
            /\ call_result' = [call_result EXCEPT ![t] = "none"]
    /\ UNCHANGED <<cb_config, success_count, last_failure_time, now, recorded>>

\* call(), after the await: func returned or raised (expected_exception is
\* Exception for every configuration)
call_end(t, ok) ==
    /\ call_pc[t] = "in_func"
    /\ IF ok THEN on_success ELSE on_failure
    /\ recorded' = Append(recorded, IF ok THEN "success" ELSE "failure")
    /\ call_pc' = [call_pc EXCEPT ![t] = "idle"]
    /\ call_result' = [call_result EXCEPT ![t] = IF ok THEN "result" ELSE "raise"]
    /\ UNCHANGED <<cb_config, now, calls, call_entered>>

\* time.time() moves on
Tick ==
    /\ now + 15 <= MaxTime
    /\ now' = now + 15
    /\ UNCHANGED <<cb_config, cb_state, failure_count, success_count, last_failure_time,
                   call_pc, call_entered, call_result, calls, recorded>>

\* no breaker is examined
BreakerIdle ==
    /\ cb_config = DefaultConfig
    /\ cb_state = "CLOSED"
    /\ failure_count = 0
    /\ success_count = 0
    /\ last_failure_time = NoTime
    /\ now = 0
    /\ call_pc = <<>>
    /\ call_entered = <<>>
    /\ call_result = <<>>
    /\ calls = 0
    /\ recorded = <<>>

(***************************************************************************)
(* The fan-out every stage uses: one task per item, each unit inside       *)
(* "async with sem", the tasks awaited with asyncio.gather.                *)
(***************************************************************************)
\* the units of work fanned out in the repository
FanKinds ==
    { "run_serper",                      \* company_aggregator_agent.py, per strategy
      "extract_single_result",           \* company_aggregator_agent.py, per search result
      "generate_queries_for_company",    \* multi_source_search_agent.py, per company
      "run_serper_search",               \* multi_source_search_agent.py, per query
      "evaluate_company_with_semaphore", \* quality_evaluator_agent.py, per finding
      "process_item",                    \* performance_monitor.py, process_batch
      "evaluate_single_company" }        \* evaluator_agent.py, per company

\* units whose body catches the exception of the external call and returns a
\* marker (an "Error: ..." string, [], fallback queries, (query, []), None)
Catches(kind) == kind # "evaluate_company_with_semaphore"

\* fan-outs that drop the None markers from what gather returned
DropsNone(kind) == kind \in {"process_item", "evaluate_single_company"}

\* process_batch gathers batch_size items at a time; the others gather all
Batched(kind) == kind = "process_item"

\* a semaphore that lets a task in when no slot is left
SemAcquirableOffByOne(v) == v >= 0

\* asyncio.Semaphore.acquire proceeds when a slot is free
SemAcquirable(v) == v > 0

BatchOf(i) == ((i - 1) \div fo_batch_size) + 1

BatchItems(b) == {i \in 1..fo_items : BatchOf(i) = b}

LastBatch == BatchOf(fo_items)

\* what a unit hands to gather for item i
Result(i, o) == [item |-> i, ok |-> (o = "ok")]

\* the results of the items, listed by increasing rank
SeqByRank(items, rank, out) ==
    [k \in 1..Cardinality(items) |->
        LET i == CHOOSE i \in items : Cardinality({j \in items : rank[j] <= rank[i]}) = k
        IN  Result(i, out[i])]

\* results listed in the order the units completed
GatheredAsCompleted(items, done, out) ==
    SeqByRank(items, [i \in items |-> CHOOSE k \in DOMAIN done : done[k] = i], out)

\* asyncio.gather: results in the order of the awaitables, whatever the order
\* of completion
Gathered(items, done, out) == SeqByRank(items, [i \in items |-> i], out)

\* [r for r in batch_results if r is not None], where the fan-out filters
Kept(kind, results) ==
    IF DropsNone(kind) THEN SelectSeq(results, LAMBDA r : r.ok) ELSE results

\* async with sem: a waiting task takes a free slot
Acquire(i) ==
    /\ fo_phase = "running"
    /\ task[i] = "waiting"
    /\ SemAcquirable(sem_value)
    /\ sem_value' = sem_value - 1
    /\ task' = [task EXCEPT ![i] = "running"]
    /\ UNCHANGED <<fo_kind, fo_items, fo_limit, fo_batch_size, fo_batch, outcome,
                   completion, fo_phase, fo_return>>

\* the fan-in: every task of the batch is done, gather returns their results
\* and the next batch (if any) is started
FanIn(last) ==
    /\ fo_return' = fo_return \o Kept(fo_kind, Gathered(BatchItems(fo_batch),
                                                         completion', outcome'))
    /\ IF fo_batch = LastBatch
       THEN /\ fo_phase' = "returned"
            /\ task' = [task EXCEPT ![last] = "done"]
            /\ fo_batch' = fo_batch
       ELSE /\ fo_phase' = "running"
            /\ task' = [j \in 1..fo_items |->
                          IF j = last THEN "done"
                          ELSE IF BatchOf(j) = fo_batch + 1 THEN "waiting"
                          ELSE task[j]]
            /\ fo_batch' = fo_batch + 1

\* a slot given back only by a unit that ends without an exception
ReleaseOnSuccess(v, o) == IF o = "ok" THEN v + 1 ELSE v

\* async with sem: __aexit__ releases the slot however the body ended
Release(v, o) == v + 1

\* a unit's external call returns or raises inside the guarded section; the
\* unit ends (returning a result or a marker) and the slot is released
Complete(i, o) ==
    /\ fo_phase = "running"
    /\ task[i] = "running"
    /\ o = "ok" \/ Catches(fo_kind)
    /\ outcome' = [outcome EXCEPT ![i] = o]
    /\ completion' = Append(completion, i)
    /\ sem_value' = Release(sem_value, o)
    /\ IF \A j \in BatchItems(fo_batch) : j = i \/ task[j] = "done"
       THEN FanIn(i)
       ELSE /\ task' = [task EXCEPT ![i] = "done"]
            /\ UNCHANGED <<fo_batch, fo_phase, fo_return>>
    /\ UNCHANGED <<fo_kind, fo_items, fo_limit, fo_batch_size>>

\* a unit without a handler raises: its slot is released, gather re-raises to
\* the awaiting coroutine at once, and asyncio.run cancels the tasks still
\* pending, which release their slots as they unwind
Escape(i) ==
    /\ fo_phase = "running"
    /\ task[i] = "running"
    /\ ~Catches(fo_kind)
    /\ outcome' = [outcome EXCEPT ![i] = "raise"]
    /\ completion' = Append(completion, i)
    /\ task' = [j \in 1..fo_items |->
                  IF j = i THEN "done"
                  ELSE IF task[j] \in {"waiting", "running"} THEN "cancelled"
                  ELSE task[j]]
    /\ sem_value' = fo_limit
    /\ fo_phase' = "raised"
    /\ UNCHANGED <<fo_kind, fo_items, fo_limit, fo_batch_size, fo_batch, fo_return>>

\* the locals of multi_source_search_agent before any call
NoSearchLocals ==
    /\ all_company_queries = <<>>
    /\ query_results = <<>>
    /\ query_answers = <<>>

\* the graph is not running while a single fan-out is examined
GraphIdle ==
    /\ active = {}
    /\ run_status = "ended"
    /\ serper_api_key = TRUE
    /\ search_depth = "standard"
    /\ max_iterations = MaxIterations
    /\ max_parallel_searches = DefaultParallel
    /\ iteration_count = 0
    /\ search_strategies_generated = <<>>
    /\ extracted_companies = <<>>
    /\ final_findings = <<>>
    /\ quality_metrics = EmptyDict
    /\ passes = 0
    /\ evals = 0
    /\ decision = "none"
    /\ search_results_serper = EmptyDict
    /\ list_objects = <<>>
    /\ search_results_website = EmptyDict
    /\ NoSearchLocals

\* no fan-out is examined while the graph runs
FanIdle ==
    /\ fo_kind = "run_serper"
    /\ fo_items = 0
    /\ fo_limit = 1
    /\ fo_batch_size = 1
    /\ fo_batch = 1
    /\ sem_value = 1
    /\ task = <<>>
    /\ outcome = <<>>
    /\ completion = <<>>
    /\ fo_phase = "returned"
    /\ fo_return = <<>>

\* the locals of company_aggregator_agent before any call
NoLocals ==
    /\ search_results = <<>>
    /\ all_extracted_companies = <<>>
    /\ extracted_after_search = <<>>
    /\ news_companies = NoUrls
    /\ seen_domains = {}
    /\ llm_outcomes = <<>>

\* the tasks of the first gather are created; limit >= 1 free slots
InitFan ==
    /\ GraphIdle
    /\ NoLocals
    /\ fo_kind \in FanKinds
    /\ fo_items \in 1..MaxItems
    /\ fo_limit \in 1..MaxLimit
    /\ fo_batch_size \in IF Batched(fo_kind) THEN 1..fo_items ELSE {fo_items}
    /\ fo_batch = 1
    /\ sem_value = fo_limit
    /\ task = [i \in 1..fo_items |-> IF BatchOf(i) = 1 THEN "waiting" ELSE "pending"]
    /\ outcome = [i \in 1..fo_items |-> "none"]
    /\ completion = <<>>
    /\ fo_phase = "running"
    /\ fo_return = <<>>
    /\ BreakerIdle
    /\ CacheIdle
    /\ JobIdle
    /\ EvalIdle
    /\ SideIdle
    /\ TwinIdle

NextFan ==
    \/ \E i \in 1..fo_items : Acquire(i) /\ UNCHANGED <<graphVars, aggVars, evidenceVars, searchVars, utilVars>>
    \/ \E i \in 1..fo_items, o \in {"ok", "raise"} :
          Complete(i, o) /\ UNCHANGED <<graphVars, aggVars, evidenceVars, searchVars, utilVars>>
    \/ \E i \in 1..fo_items : Escape(i) /\ UNCHANGED <<graphVars, aggVars, evidenceVars, searchVars, utilVars>>

SpecFan == InitFan /\ [][NextFan]_vars

\* the event loop keeps running the tasks that are ready, and every unit's
\* external call returns or raises
SpecFanLive == InitFan /\ [][NextFan]_vars /\ WF_vars(NextFan)

(***************************************************************************)
(* A run of the compiled graph: graph.invoke(initial_state)                *)
(***************************************************************************)
\* findings a caller may pass in (no node of the graph writes them)
Finding(domain) == [domain |-> domain]

Init ==
    /\ active = {"QueryAgent"}
    /\ run_status = "running"
    /\ serper_api_key \in BOOLEAN
    /\ search_depth = "standard"
    /\ max_iterations \in 0..MaxIterations
    /\ max_parallel_searches \in ParallelSearches
    /\ iteration_count = 0
    /\ search_strategies_generated = <<>>
    /\ extracted_companies = <<>>
    /\ final_findings \in {<<>>, <<Finding("stripe.com")>>}
    /\ quality_metrics \in {EmptyDict, [coverage_score |-> 85], QualityMetrics(85, 75)}
    /\ passes = 0
    /\ evals = 0
    /\ decision = "none"
    /\ search_results_serper = EmptyDict
    /\ list_objects = <<>>
    /\ search_results_website = EmptyDict
    /\ NoLocals
    /\ NoSearchLocals
    /\ FanIdle
    /\ BreakerIdle
    /\ CacheIdle
    /\ JobIdle
    /\ EvalIdle
    /\ SideIdle
    /\ TwinIdle

Next ==
    \/ query_agent
    \/ company_aggregator_agent(FALSE)
    \/ multi_source_search_agent(FALSE)
    \/ quality_evaluator_agent

Spec == Init /\ [][Next]_vars

(***************************************************************************)
(* One call of company_aggregator_agent on a state a pass can hand it,     *)
(* with the call's locals observed.                                        *)
(***************************************************************************)
InitAgg ==
    /\ active = {"CompanyAggregatorAgent"}
    /\ run_status = "running"
    /\ serper_api_key \in BOOLEAN
    /\ search_depth \in {"quick", "standard"}
    /\ max_iterations = MaxIterations
    /\ max_parallel_searches = DefaultParallel
    /\ iteration_count = 0
    /\ search_strategies_generated \in StrategyLists
    /\ extracted_companies \in {<<>>, <<cC>>}
    /\ final_findings = <<>>
    /\ quality_metrics = EmptyDict
    /\ passes = 0
    /\ evals = 0
    /\ decision = "none"
    /\ search_results_serper = EmptyDict
    /\ list_objects = <<>>
    /\ search_results_website = EmptyDict
    /\ NoLocals
    /\ NoSearchLocals
    /\ FanIdle
    /\ BreakerIdle
    /\ CacheIdle
    /\ JobIdle
    /\ EvalIdle
    /\ SideIdle
    /\ TwinIdle

NextAgg == company_aggregator_agent(TRUE)

SpecAgg == InitAgg /\ [][NextAgg]_vars

(***************************************************************************)
(* One call of multi_source_search_agent on a state a pass can hand it,    *)
(* with the call's locals observed.                                        *)
(***************************************************************************)
\* the entities the Aggregation stage may have left in the state
SearchCompanyLists == { <<>>, <<cA>>, <<cA, cB>>, <<cD, cE>>, <<cE, cD>> }

\* the evidence earlier passes may have left in the state: none (first pass),
\* or lists under keys of entities then in the state and the general bucket
NoEvidence == [map |-> EmptyDict, lists |-> <<>>]
PriorEvidence ==
    { NoEvidence,
      [map |-> ("stripe.com" :> 1),
       lists |-> << <<Snippet(<<"Stripe", "fraud">>, 1)>> >>],
      [map |-> ("plaid.com" :> 1),
       lists |-> << <<Snippet(<<"Plaid", "fraud">>, 1), Snippet(<<"Plaid", "fraud">>, 2)>> >>],
      [map |-> ("wise.com" :> 1 @@ "unknown" :> 2),
       lists |-> << <<Snippet(<<"Wise", "fraud">>, 1)>>, <<Snippet(<<"wise", "fraud">>, 1)>> >>] }

InitSearch ==
    /\ active = {"SearchAgent"}
    /\ run_status = "running"
    /\ serper_api_key \in BOOLEAN
    /\ search_depth = "standard"
    /\ max_iterations = MaxIterations
    /\ max_parallel_searches = DefaultParallel
    /\ search_strategies_generated = <<Strategy(1)>>
    /\ extracted_companies \in SearchCompanyLists
    /\ final_findings = <<>>
    /\ quality_metrics = EmptyDict
    /\ search_results_website = EmptyDict
    /\ \E prior \in PriorEvidence :
          /\ search_results_serper = prior.map
          /\ list_objects = prior.lists
          /\ iteration_count = IF prior = NoEvidence THEN 0 ELSE 1
          /\ passes = IF prior = NoEvidence THEN 0 ELSE 1
          /\ evals = IF prior = NoEvidence THEN 0 ELSE 1
          /\ decision = IF prior = NoEvidence THEN "none" ELSE "continue"
    /\ NoLocals
    /\ NoSearchLocals
    /\ FanIdle
    /\ BreakerIdle
    /\ CacheIdle
    /\ JobIdle
    /\ EvalIdle
    /\ SideIdle
    /\ TwinIdle

NextSearch == multi_source_search_agent(TRUE)

SpecSearch == InitSearch /\ [][NextSearch]_vars

(***************************************************************************)
(* One CircuitBreaker used by MaxCallers concurrent coroutines             *)
(***************************************************************************)
InitBreaker ==
    /\ GraphIdle
    /\ NoLocals
    /\ FanIdle
    /\ cb_config \in Configs
    /\ cb_state = "CLOSED"
    /\ failure_count = 0
    /\ success_count = 0
    /\ last_failure_time = NoTime
    /\ now = 0
    /\ call_pc = [t \in Callers |-> "idle"]
    /\ call_entered = [t \in Callers |-> "none"]
    /\ call_result = [t \in Callers |-> "none"]
    /\ calls = 0
    /\ recorded = <<>>
    /\ CacheIdle
    /\ JobIdle
    /\ EvalIdle
    /\ SideIdle
    /\ TwinIdle

NextBreaker ==
    \/ \E t \in Callers : call_begin(t) /\ UNCHANGED <<graphVars, aggVars, fanVars,
                                                        evidenceVars, searchVars, cacheVars, jobVars, evalVars, twinVars, sideVars>>
    \/ \E t \in Callers, ok \in BOOLEAN :
          call_end(t, ok) /\ UNCHANGED <<graphVars, aggVars, fanVars, evidenceVars, searchVars,
                                         cacheVars, jobVars, evalVars, twinVars, sideVars>>
    \/ Tick /\ UNCHANGED <<graphVars, aggVars, fanVars, evidenceVars, searchVars, cacheVars, jobVars, evalVars, twinVars, sideVars>>

SpecBreaker == InitBreaker /\ [][NextBreaker]_vars

(***************************************************************************)
(* The InMemoryCache under gets, sets and the passing of time              *)
(***************************************************************************)
InitCache ==
    /\ GraphIdle
    /\ NoLocals
    /\ FanIdle
    /\ BreakerIdle
    /\ CacheIdle
    /\ JobIdle
    /\ EvalIdle
    /\ SideIdle
    /\ TwinIdle

NextCache ==
    \/ \E k \in Keys, v \in Values, ttl \in TTLs :
          cache_set(k, v, ttl) /\ UNCHANGED <<graphVars, aggVars, fanVars, evidenceVars,
                                               searchVars, cbVars, jobVars, evalVars, twinVars, sideVars>>
    \/ \E k \in Keys :
          cache_get(k) /\ UNCHANGED <<graphVars, aggVars, fanVars, evidenceVars,
                                       searchVars, cbVars, jobVars, evalVars, twinVars, sideVars>>
    \/ CacheTick /\ UNCHANGED <<graphVars, aggVars, fanVars, evidenceVars, searchVars, cbVars, jobVars, evalVars, twinVars, sideVars>>

SpecCache == InitCache /\ [][NextCache]_vars

(***************************************************************************)
(* Search sub-tasks running concurrently against the one cache             *)
(***************************************************************************)
InitSubtask ==
    /\ GraphIdle
    /\ NoLocals
    /\ FanIdle
    /\ BreakerIdle
    /\ CacheIdle
    /\ JobIdle
    /\ EvalIdle
    /\ TwinIdle
    /\ st_pc = [t \in Subtasks |-> "idle"]
    /\ st_key = [t \in Subtasks |-> "none"]
    /\ st_response = [t \in Subtasks |-> "none"]
    /\ st_return = [t \in Subtasks |-> "none"]
    /\ NewsIdle
    /\ StreamIdle

NextSubtask ==
    \/ \E t \in Subtasks, k \in Keys :
          run_serper_begin(t, k) /\ UNCHANGED <<graphVars, aggVars, fanVars, evidenceVars,
                                                 searchVars, cbVars, jobVars, evalVars, twinVars,
                                                 newsVars, streamVars>>
    \/ \E t \in Subtasks, response \in Responses :
          run_serper_end(t, response) /\ UNCHANGED <<graphVars, aggVars, fanVars, evidenceVars,
                                                     searchVars, cbVars, jobVars, evalVars, twinVars,
                                                     newsVars, streamVars>>
    \/ CacheTick /\ UNCHANGED <<graphVars, aggVars, fanVars, evidenceVars, searchVars, cbVars,
                                jobVars, evalVars, twinVars, sideVars>>

SpecSubtask == InitSubtask /\ [][NextSubtask]_vars

(***************************************************************************)
(* One call of extract_companies_from_news_queries                         *)
(***************************************************************************)
\* what the LLM call of one query may give
NewsResponses == {Raise} \cup {Ok(l) : l \in {<<>>, <<cA>>, <<cA2, cB>>, <<cB, cC, cB>>}}

InitNews ==
    /\ GraphIdle
    /\ NoLocals
    /\ FanIdle
    /\ BreakerIdle
    /\ CacheIdle
    /\ JobIdle
    /\ EvalIdle
    /\ TwinIdle
    /\ SubtaskIdle
    /\ nx_limit \in 1..MaxLimit
    /\ \E n \in 1..MaxQueries : nx_responses \in [1..n -> NewsResponses]
    /\ nx_task = [q \in DOMAIN nx_responses |-> "waiting"]
    /\ nx_seen_domains = {}
    /\ nx_unique = [q \in DOMAIN nx_responses |-> <<>>]
    /\ nx_completion = <<>>
    /\ nx_phase = "running"
    /\ nx_all_companies = <<>>
    /\ StreamIdle

NextNews ==
    \/ \E q \in DOMAIN nx_task :
          NewsAcquire(q) /\ UNCHANGED <<graphVars, aggVars, fanVars, evidenceVars, searchVars,
                                        cbVars, cacheVars, jobVars, evalVars, twinVars,
                                        subtaskVars, streamVars>>
    \/ \E q \in DOMAIN nx_task :
          NewsComplete(q) /\ UNCHANGED <<graphVars, aggVars, fanVars, evidenceVars, searchVars,
                                         cbVars, cacheVars, jobVars, evalVars, twinVars,
                                         subtaskVars, streamVars>>
    \/ NewsReturn /\ UNCHANGED <<graphVars, aggVars, fanVars, evidenceVars, searchVars,
                                 cbVars, cacheVars, jobVars, evalVars, twinVars, subtaskVars,
                                 streamVars>>

SpecNews == InitNews /\ [][NextNews]_vars

(***************************************************************************)
(* One request of /research/stream                                         *)
(***************************************************************************)
\* what one call of write may carry: print() writes its text and then "\n"
Texts == {<<"a">>, <<"b">>, <<NL>>, <<"a", NL>>, <<Blank, NL>>, <<Blank, "b", Blank>>,
          <<NL, "b", NL, "a">>}

InitStream ==
    /\ GraphIdle
    /\ NoLocals
    /\ FanIdle
    /\ BreakerIdle
    /\ CacheIdle
    /\ JobIdle
    /\ EvalIdle
    /\ TwinIdle
    /\ SubtaskIdle
    /\ NewsIdle
    /\ sx_future = "idle"
    /\ sx_stdout = <<>>
    /\ sx_buffer = <<>>
    /\ sx_log_queue = <<>>
    /\ sx_yielded = <<>>
    /\ sx_pc = "start"

StreamRest == <<graphVars, aggVars, fanVars, evidenceVars, searchVars, cbVars, cacheVars,
                jobVars, evalVars, twinVars, subtaskVars, newsVars>>

NextStream ==
    \/ \E text \in Texts :
          /\ Len(SelectSeq(sx_stdout, LAMBDA c : c = NL)) < MaxNewlines
          /\ Len(sx_stdout) < MaxChars
          /\ write(text)
          /\ UNCHANGED StreamRest
    \/ run_graph_returns /\ UNCHANGED StreamRest
    \/ run_graph_raises /\ UNCHANGED StreamRest
    \/ generate_start /\ UNCHANGED StreamRest
    \/ generate_while /\ UNCHANGED StreamRest
    \/ generate_get /\ UNCHANGED StreamRest
    \/ generate_result /\ UNCHANGED StreamRest
    \/ generate_remaining /\ UNCHANGED StreamRest
    \/ generate_results /\ UNCHANGED StreamRest
    \/ generate_complete /\ UNCHANGED StreamRest

SpecStream == InitStream /\ [][NextStream]_vars

(***************************************************************************)
(* app/api.py: one research session, from start_research to the end of     *)
(* execute_research                                                        *)
(***************************************************************************)
\* a session that reports success whatever the workflow did
JobStatusAlwaysCompleted(run) == "completed"

\* execute_research: "failed" from the except around the whole task,
\* "completed" once the workflow has returned
JobStatusFor(run) == IF run = "failed" THEN "failed" ELSE "completed"

\* start_research has stored the session with status "queued"; the request's
\* fields become the initial GTMState
InitJob ==
    /\ active = {"QueryAgent"}
    /\ run_status = "running"
    /\ serper_api_key \in BOOLEAN
    /\ search_depth = "standard"
    /\ max_iterations \in 0..MaxIterations
    /\ max_parallel_searches \in ParallelSearches
    /\ iteration_count = 0
    /\ search_strategies_generated = <<>>
    /\ extracted_companies = <<>>
    /\ final_findings = <<>>
    /\ quality_metrics = EmptyDict
    /\ passes = 0
    /\ evals = 0
    /\ decision = "none"
    /\ search_results_serper = EmptyDict
    /\ list_objects = <<>>
    /\ search_results_website = EmptyDict
    /\ NoLocals
    /\ NoSearchLocals
    /\ FanIdle
    /\ BreakerIdle
    /\ CacheIdle
    /\ EvalIdle
    /\ SideIdle
    /\ confidence_threshold \in Thresholds
    /\ twin_threshold \in Thresholds
    /\ twin_decision = "none"
    /\ job_status = "queued"
    /\ job_error = FALSE
    /\ job_results = "none"

\* execute_research starts: status "processing"
execute_research_begin ==
    /\ job_status = "queued"
    /\ job_status' = "processing"
    /\ UNCHANGED <<job_error, job_results>>

\* execute_research after gtm_workflow.invoke: a workflow that raised gives
\* "failed" with the message; a workflow that returned gives "completed", with
\* the results when json.dumps accepts them and with empty results and an
\* error message when it raises
execute_research_end ==
    /\ job_status = "processing"
    /\ run_status \in {"ended", "failed"}
    /\ job_status' = JobStatusFor(run_status)
    /\ IF run_status = "failed"
       THEN /\ job_error' = TRUE
            /\ job_results' = "none"
       ELSE \E dumps \in {"ok", "raise"} :
               /\ job_error' = (dumps = "raise")
               /\ job_results' = IF dumps = "ok" THEN "full" ELSE "empty"

NextJob ==
    \/ execute_research_begin /\ UNCHANGED <<graphVars, aggVars, fanVars, evidenceVars,
                                             searchVars, cbVars, cacheVars, evalVars, twinVars, sideVars>>
    \/ job_status = "processing" /\ Next
    \/ execute_research_end /\ UNCHANGED <<graphVars, aggVars, fanVars, evidenceVars,
                                           searchVars, cbVars, cacheVars, evalVars, twinVars, sideVars>>

\* the background task, once added, runs every step it can take
SpecJob == InitJob /\ [][NextJob]_vars /\ WF_vars(NextJob)

(***************************************************************************)
(* One call of evaluator_agent on a state with entities and evidence       *)
(***************************************************************************)
EvalCompanyLists == { <<>>, <<cA>>, <<cA, cB>>, <<cB, cC, cA>> }

EvalDomains == <<"stripe.com", "adyen.com", "plaid.com">>

\* serper evidence: each domain has no key, or a key with 0..MaxSnippets snippets
SerperEvidenceWith(keys) ==
    { [map |-> [d \in {EvalDomains[k] : k \in keys} |->
                   CHOOSE k \in keys : EvalDomains[k] = d],
       lists |-> [k \in 1..3 |-> [n \in 1..lens[k] |-> "s" \o ToString(n)]]] :
        lens \in {l \in [1..3 -> 0..MaxSnippets] : \A k \in 1..3 : k \notin keys => l[k] = 0} }

SerperEvidence == UNION { SerperEvidenceWith(keys) : keys \in SUBSET (1..3) }

\* website evidence: one snippet for some of the first two domains
WebsiteEvidence ==
    { [d \in {EvalDomains[k] : k \in keys} |-> <<"w1">>] : keys \in SUBSET (1..2) }

InitEval ==
    /\ active = {"EvaluatorAgent"}
    /\ run_status = "running"
    /\ serper_api_key = TRUE
    /\ search_depth = "standard"
    /\ max_iterations = MaxIterations
    /\ max_parallel_searches = DefaultParallel
    /\ iteration_count = 1
    /\ search_strategies_generated = <<Strategy(1)>>
    /\ extracted_companies \in EvalCompanyLists
    /\ final_findings = <<>>
    /\ quality_metrics = EmptyDict
    /\ passes = 0
    /\ evals = 0
    /\ decision = "none"
    /\ \E serper \in SerperEvidence :
          /\ search_results_serper = serper.map
          /\ list_objects = serper.lists
    /\ search_results_website \in WebsiteEvidence
    /\ NoLocals
    /\ NoSearchLocals
    /\ FanIdle
    /\ BreakerIdle
    /\ CacheIdle
    /\ JobIdle
    /\ EvalIdle
    /\ SideIdle
    /\ TwinIdle

NextEval == evaluator_agent

SpecEval == InitEval /\ [][NextEval]_vars

(***************************************************************************)
(* Claims about a run of the graph (specification Spec)                    *)
(***************************************************************************)
\* what the claims call the continuation predicate, a missing score read as 0
ScoreOr0(qm, key) == IF key \in DOMAIN qm THEN qm[key] ELSE 0

ContinuationPredicate(ic, mi, qm) ==
    ic < mi /\ (ScoreOr0(qm, "coverage_score") < 80 \/ ScoreOr0(qm, "quality_score") < 70)

\* C1: forced termination - a run never completes more passes through the loop
\* body than max_iterations.
C1_ForcedTermination == passes <= max_iterations

\* C2: the edge taken after QualityEvaluate is the back-edge to Query exactly
\* when iteration_count < max_iterations and (coverage_score < 0.8 or
\* quality_score < 0.7), a missing score read as 0; otherwise the run ends. In
\* particular coverage >= 0.8 with quality >= 0.7 ends the run whatever budget
\* remains, and coverage 0.5 / quality 0.9 at iteration 1 of 3 continues.
C2_ContinuationPredicate ==
    [][ evals' = evals + 1 =>
          LET c == ContinuationPredicate(iteration_count', max_iterations', quality_metrics')
          IN  /\ c => (active' = {"QueryAgent"} /\ run_status' = "running")
              /\ ~c => (active' = {} /\ run_status' = "ended")
              /\ (ScoreOr0(quality_metrics', "coverage_score") >= 80
                    /\ ScoreOr0(quality_metrics', "quality_score") >= 70)
                    => run_status' = "ended"
              /\ (quality_metrics' = [coverage_score |-> 50, quality_score |-> 90]
                    /\ iteration_count' = 1 /\ max_iterations' = 3)
                    => active' = {"QueryAgent"} ]_vars

C2_Witness ==
    /\ decision = "continue"
    /\ active = {"QueryAgent"}
    /\ quality_metrics = [coverage_score |-> 50, quality_score |-> 90]
    /\ iteration_count = 1
    /\ max_iterations = 3

\* C3: only the Search stage changes iteration_count, by exactly 1 each time it
\* returns, so at the k-th evaluation of the continuation predicate it equals k.
C3_IterationCountOncePerPass ==
    [][ /\ iteration_count' # iteration_count
            => ("SearchAgent" \in active /\ iteration_count' = iteration_count + 1)
        /\ ("SearchAgent" \in active /\ "SearchAgent" \notin active'
              /\ run_status' = "running")
            => iteration_count' = iteration_count + 1
        /\ evals' = evals + 1 => iteration_count' = evals' ]_vars

C3_Witness == evals = 2 /\ iteration_count = 2 /\ active = {"QueryAgent"}

\* C4: whenever the continuation predicate is about to be evaluated,
\* iteration_count <= max_iterations.
C4_IterationWithinBudget ==
    "QualityEvaluatorAgent" \in active => iteration_count <= max_iterations

\* C5: the stages run one at a time in the cyclic order Query, Aggregate, Search,
\* QualityEvaluate; the run starts at Query, the only back-edge is
\* QualityEvaluate -> Query, and the run ends normally only from QualityEvaluate.
StageOrder ==
    { <<"QueryAgent", "CompanyAggregatorAgent">>,
      <<"CompanyAggregatorAgent", "SearchAgent">>,
      <<"SearchAgent", "QualityEvaluatorAgent">>,
      <<"QualityEvaluatorAgent", "QueryAgent">> }

C5_StageOrder ==
    /\ active = {"QueryAgent"}
    /\ [][ /\ Cardinality(active') <= 1
           /\ \A n \in active, m \in active' : n # m => <<n, m>> \in StageOrder
           /\ active' # {} => active # {}
           /\ (run_status = "running" /\ run_status' = "ended")
                => active = {"QualityEvaluatorAgent"} ]_vars

C5_Witness == passes = 1 /\ active = {"QueryAgent"} /\ run_status = "running"

(***************************************************************************)
(* Claims about one fan-out (specification SpecFan)                        *)
(***************************************************************************)
InFlight == {i \in 1..fo_items : task[i] = "running"}

\* C6: concurrency bound - in every fan-out, the number of units executing
\* inside the semaphore-guarded section at the same time never exceeds the
\* limit, for every limit >= 1 and any number of items.
C6_ConcurrencyBound == Cardinality(InFlight) <= fo_limit

\* the limit is reached while a further task waits for a slot
C6_Witness ==
    /\ fo_phase = "running"
    /\ Cardinality(InFlight) = fo_limit
    /\ fo_limit = MaxLimit
    /\ \E i \in 1..fo_items : task[i] = "waiting"

\* C7: failure isolation in every fan-out - a unit that raises does not abort
\* the batch or the stage (the fan-out never ends by raising), does not cancel
\* sibling units, and the results of the other items are still collected: when
\* the fan-out has ended, the result of every item whose call succeeded is in
\* the list handed back.
C7_FailureIsolation ==
    /\ fo_phase # "raised"
    /\ \A i \in 1..fo_items : task[i] # "cancelled"
    /\ fo_phase = "returned" =>
          \A i \in 1..fo_items :
             outcome[i] = "ok" => \E k \in DOMAIN fo_return : fo_return[k] = Result(i, "ok")

AggReturned == run_status = "running" /\ active = {"SearchAgent"}

Domains(companies) == {companies[i].domain : i \in DOMAIN companies}

RECURSIVE Flatten(_)
Flatten(lists) == IF lists = <<>> THEN <<>> ELSE Head(lists) \o Flatten(Tail(lists))

\* position of the earliest candidate of a domain in a sequence that has one
FirstIndex(flat, d) == CHOOSE i \in DOMAIN flat :
                          /\ flat[i].domain = d
                          /\ \A j \in 1..(i - 1) : flat[j].domain # d

\* C9: the list the Aggregation stage returns holds no two entities with the
\* same domain, entities from search results and from news counted together.
C9_NoDuplicateDomains ==
    AggReturned =>
        \A i, j \in DOMAIN extracted_companies :
            i # j => extracted_companies[i].domain # extracted_companies[j].domain

C9_Witness ==
    /\ AggReturned
    /\ all_extracted_companies = << <<cA>>, <<cB, cA2>>, <<>> >>
    /\ news_companies = Ok(<<cC, cA>>)
    /\ extracted_companies = <<cA, cB, cC>>

C11_Cap == AggReturned => Len(extracted_companies) <= MaxCompaniesOf(search_depth)

(***************************************************************************)
(* Claims about the entities across passes (specification Spec)            *)
(***************************************************************************)
\* C12: entities accumulate across loop iterations - no step of a run removes
\* an entity (by domain) from extracted_companies unless the list it leaves is
\* at the cap: the Aggregation stage appends to what the state holds.
C12_EntitiesAccumulate ==
    [][ \/ Domains(extracted_companies) \subseteq Domains(extracted_companies')
        \/ Len(extracted_companies') >= MaxCompaniesOf(search_depth) ]_vars

\* C15: no orphaned evidence - in every state of a run, every key of the
\* evidence map search_results_serper is the domain of an entity currently in
\* extracted_companies (search_results_website is written by no node of the
\* graph and stays without keys).
C15_NoOrphanedEvidence == DOMAIN search_results_serper \subseteq Domains(extracted_companies)

(***************************************************************************)
(* Claims about the Search stage (specification SpecSearch)                *)
(***************************************************************************)
SearchReturned == active = {"QualityEvaluatorAgent"} /\ all_company_queries # <<>>

\* the evidence map as a dict of lists
EvidenceOf(map, lists) == [k \in DOMAIN map |-> lists[map[k]]]

\* the new snippets for key k: the results of the queries stored under k, in
\* query order
RECURSIVE NewSnippets(_, _, _)
NewSnippets(companies, rs, k) ==
    IF rs = <<>> THEN <<>>
    ELSE (IF MatchedKey(companies, Head(rs).query) = k THEN Head(rs).result ELSE <<>>)
         \o NewSnippets(companies, Tail(rs), k)

\* C13: merge correctness - when the Search stage returns, the evidence map
\* has the keys it had before and the keys of the new results; under every key
\* the list is the list held before the stage (empty for a new key) followed by
\* the new snippets for that key in query order, so nothing stored is dropped
\* or overwritten.
C13_MergeCorrectness ==
    [][ iteration_count' = iteration_count + 1 =>
          LET old == EvidenceOf(search_results_serper, list_objects)
              new == EvidenceOf(search_results_serper', list_objects')
              rs == query_results'
          IN  /\ DOMAIN new = DOMAIN old \cup
                    {MatchedKey(extracted_companies, rs[i].query) : i \in DOMAIN rs}
              /\ \A k \in DOMAIN new :
                    new[k] = (IF k \in DOMAIN old THEN old[k] ELSE <<>>)
                             \o NewSnippets(extracted_companies, rs, k) ]_vars

\* a second pass returned: wise.com had one snippet and got the five of its
\* fallback queries, "unknown" was only in the previous map, wisepayments.com
\* is new
C13_Witness ==
    /\ SearchReturned
    /\ extracted_companies = <<cE, cD>>
    /\ DOMAIN search_results_serper = {"wise.com", "unknown", "wisepayments.com"}
    /\ Len(list_objects[search_results_serper["wise.com"]]) = 6
    /\ list_objects[search_results_serper["unknown"]] = <<Snippet(<<"wise", "fraud">>, 1)>>
    /\ Len(list_objects[search_results_serper["wisepayments.com"]]) = 1

\* C14: the evidence merge is pure - no step changes a list of the evidence
\* map of the state it started from: every per-key list of the input state
\* reads the same after the Search stage returned as before.
C14_InputUnchanged ==
    [][ \A k \in DOMAIN search_results_serper :
           list_objects'[search_results_serper[k]] = list_objects[search_results_serper[k]] ]_vars

\* C16: evidence attribution - after the Search stage returned, every query
\* generated for an entity is stored under that entity's own domain key (not
\* another entity's, not the general bucket) and its snippets are in that
\* key's list.
C16_EvidenceAttribution ==
    SearchReturned =>
       \A c \in DOMAIN all_company_queries :
          \A j \in DOMAIN all_company_queries[c] :
             LET q == all_company_queries[c][j]
                 own == extracted_companies[c].domain
             IN  /\ MatchedKey(extracted_companies, q) = own
                 /\ own \in DOMAIN search_results_serper
                 /\ \A i \in DOMAIN query_results :
                       query_results[i].query = q =>
                          Range(query_results[i].result)
                             \subseteq Range(list_objects[search_results_serper[own]])

(***************************************************************************)
(* Claims about the circuit breaker (specification SpecBreaker)            *)
(***************************************************************************)
\* the step records outcome o of a call
Records(o) == Len(recorded') = Len(recorded) + 1 /\ recorded'[Len(recorded')] = o

\* the number of failures recorded since the last recorded success
ConsecutiveFailures(h) ==
    LET successes == {i \in DOMAIN h : h[i] = "success"}
    IN  IF successes = {} THEN Len(h)
        ELSE Len(h) - (CHOOSE i \in successes : \A j \in successes : j <= i)

\* C17: a closed breaker moves to open exactly when failure_threshold
\* consecutive failures have been recorded with no success in between: from
\* closed the only move is to open, and it is made by the step that records
\* the failure_threshold-th failure in a row, and by every such step.
C17_OpensAtThreshold ==
    [][ cb_state = "CLOSED" =>
          /\ cb_state' \in {"CLOSED", "OPEN"}
          /\ cb_state' = "OPEN" <=>
                /\ Records("failure")
                /\ ConsecutiveFailures(recorded') = cb_config.failure_threshold ]_vars

\* the openai breaker (threshold 2): a failure, a success, then two failures
C17_Witness ==
    /\ cb_config = openai_circuit_breaker
    /\ cb_state = "OPEN"
    /\ recorded = <<"failure", "success", "failure", "failure">>

\* C18: while the breaker is open and less than recovery_timeout has elapsed
\* since the last recorded failure, a call() raises CircuitBreakerOpenError
\* without invoking the underlying function and the breaker stays open.
C18_FailsFastWhileOpen ==
    [][ ( /\ calls' = calls + 1
          /\ cb_state = "OPEN"
          /\ now - last_failure_time < cb_config.recovery_timeout ) =>
          /\ call_pc' = call_pc
          /\ cb_state' = "OPEN"
          /\ \E t \in Callers :
                /\ call_result'[t] = "CircuitBreakerOpenError"
                /\ \A u \in Callers \ {t} : call_result'[u] = call_result[u] ]_vars

\* a call failed fast on an open breaker some time after the last failure
C18_Witness ==
    /\ cb_state = "OPEN"
    /\ now > last_failure_time
    /\ now - last_failure_time < cb_config.recovery_timeout
    /\ \E t \in Callers : call_result[t] = "CircuitBreakerOpenError"
    /\ \A t \in Callers : call_pc[t] = "idle"

\* C19: while the breaker is half-open, at most one invocation of the
\* underlying function admitted in the half-open state is in flight.
C19_SingleProbe ==
    cb_state = "HALF_OPEN" =>
       Cardinality({t \in Callers : call_pc[t] = "in_func" /\ call_entered[t] = "HALF_OPEN"}) <= 1

C21_ReopensForFullTimeout ==
    [][ /\ (cb_state = "HALF_OPEN" /\ Records("failure")) =>
              (cb_state' = "OPEN" /\ last_failure_time' = now)
        /\ cb_state = "OPEN" =>
              /\ last_failure_time' >= last_failure_time
              /\ cb_state' # "OPEN" =>
                    /\ cb_state' = "HALF_OPEN"
                    /\ calls' = calls + 1
                    /\ now - last_failure_time >= cb_config.recovery_timeout
              /\ (calls' = calls + 1 /\ now - last_failure_time < cb_config.recovery_timeout) =>
                    /\ call_pc' = call_pc
                    /\ \E t \in Callers : call_result'[t] = "CircuitBreakerOpenError" ]_vars

\* the serper breaker (timeout 30) opened at 0, its probe failed at 30, and a
\* call at 45 failed fast although 45 seconds have passed since it first opened
C21_Witness ==
    /\ cb_config = serper_circuit_breaker
    /\ recorded = <<"failure", "failure", "failure", "failure">>
    /\ cb_state = "OPEN"
    /\ last_failure_time = 30
    /\ now = 45
    /\ \E t \in Callers : call_result[t] = "CircuitBreakerOpenError"

(***************************************************************************)
(* Claims about the cache (specification SpecCache)                        *)
(***************************************************************************)
\* C22: cache round trip: for a key last set with value v and a positive ttl,
\* a get at the time of the set returns v, and a get later than ttl seconds
\* after the set returns None.
C22_CacheRoundTrip ==
    [][ \A k \in Keys :
          ( /\ cache_op' # cache_op
            /\ cache_op'.op = "get"
            /\ cache_op'.key = k
            /\ k \in DOMAIN last_set
            /\ last_set[k].ttl > 0 ) =>
              /\ clock = last_set[k].at => cache_op'.result = last_set[k].value
              /\ clock - last_set[k].at > last_set[k].ttl => cache_op'.result = "None" ]_vars

\* k1 set with ttl 2 at time 0 was read back at once, k2 set with ttl 1 was
\* read after its ttl: the last get returned None and removed the entry
C22_Witness ==
    /\ "k1" \in DOMAIN last_set
    /\ last_set["k1"].ttl = 2
    /\ "k1" \in DOMAIN cache
    /\ "k2" \in DOMAIN last_set
    /\ last_set["k2"].ttl = 1
    /\ clock - last_set["k2"].at > 1
    /\ cache_op = [op |-> "get", key |-> "k2", result |-> "None"]
    /\ "k2" \notin DOMAIN cache

(***************************************************************************)
(* Claims about the resilience of the stages' external calls               *)
(***************************************************************************)
\* C23: the stages' search calls pass through the circuit breaker of their
\* dependency: once failure_threshold searches of the search stage have
\* failed, the searches after them fail fast, so none of them brings back
\* snippets from the network.
C23_FailFastAfterRepeatedFailures ==
    SearchReturned =>
       \A i \in DOMAIN query_results :
          Cardinality({j \in 1..(i - 1) : query_results[j].result = <<>>})
                >= serper_circuit_breaker.failure_threshold
             => query_results[i].result = <<>>

\* C24: a quality stage that has no findings to analyse, or whose analysis
\* raised, raises nothing and hands back its input state: no field of the
\* state changes and the run does not fail; when the run stops at that point it
\* stops because iteration_count has reached max_iterations (metrics supplied
\* by the caller of the graph before the first evaluation aside).
C24_QualityFailureRecovered ==
    [][ (evals' = evals + 1 /\ quality_metrics' = quality_metrics) =>
          /\ run_status' \in {"running", "ended"}
          /\ UNCHANGED <<iteration_count, max_iterations, max_parallel_searches, search_depth,
                         search_strategies_generated, extracted_companies,
                         final_findings, evidenceVars>>
          /\ (decision' = "stop" /\ (evals >= 1 \/ quality_metrics = EmptyDict)) =>
                 iteration_count >= max_iterations
          /\ decision' = "continue" => active' = {"QueryAgent"} ]_vars

\* with findings to analyse the analysis failed in each of three passes: the
\* metrics are still absent and the run ended at the iteration limit
C24_Witness ==
    /\ run_status = "ended"
    /\ final_findings # <<>>
    /\ quality_metrics = EmptyDict
    /\ decision = "stop"
    /\ passes = 3
    /\ iteration_count = 3
    /\ max_iterations = 3

(***************************************************************************)
(* Claims about a research session (specification SpecJob)                 *)
(***************************************************************************)
\* C25: stage precondition violations are fatal and not retried: the
\* aggregation stage invoked with no strategies and the search stage invoked
\* with no extracted entities raise; once the workflow has raised no stage
\* executes again, and the session ends as failed with a message, never as
\* completed.
C25_PreconditionViolationsFatal ==
    [][ /\ ( /\ active = {"CompanyAggregatorAgent"}
             /\ search_strategies_generated = <<>>
             /\ graphVars' # graphVars ) =>
               /\ run_status' = "failed"
               /\ active' = {}
               /\ extracted_companies' = extracted_companies
        /\ ( /\ active = {"SearchAgent"}
             /\ extracted_companies = <<>>
             /\ graphVars' # graphVars ) =>
               /\ run_status' = "failed"
               /\ active' = {}
               /\ iteration_count' = iteration_count
        /\ run_status = "failed" =>
               /\ graphVars' = graphVars
               /\ job_status' # "completed"
               /\ job_status' # job_status => (job_status' = "failed" /\ job_error') ]_vars

\* the aggregation stage returned no entity, the search stage raised, and the
\* session was stored as failed
C25_Witness ==
    /\ job_status = "failed"
    /\ job_error
    /\ run_status = "failed"
    /\ serper_api_key
    /\ search_strategies_generated # <<>>
    /\ extracted_companies = <<>>
    /\ iteration_count = 0

\* C26: every submitted session eventually reaches completed or failed.
C26_EventuallyTerminal == <>(job_status \in {"completed", "failed"})

(***************************************************************************)
(* Claims about failures inside the Aggregation stage (SpecAgg)            *)
(***************************************************************************)
\* the candidate lists of the strategies whose search and extraction succeeded
RECURSIVE SucceededOnly(_, _, _)
SucceededOnly(all, outcomes, j) ==
    IF j > Len(all) THEN <<>>
    ELSE (IF outcomes[j] = "ok" THEN <<all[j]>> ELSE <<>>)
            \o SucceededOnly(all, outcomes, j + 1)

\* C27: in the aggregation stage every strategy gets one search call and, when
\* the search did not fail, one extraction call; a failed search (the "Error:"
\* sentinel) and a raising extraction contribute no entity, and the entities
\* of the stage are those the succeeding strategies alone would give.
C27_FailedUnitsContributeNothing ==
    AggReturned =>
       LET n == Len(search_strategies_generated)
           max_companies == MaxCompaniesOf(search_depth)
           others == SucceededOnly(all_extracted_companies, llm_outcomes, 1)
       IN  /\ Len(search_results) = n
           /\ Len(all_extracted_companies) = n
           /\ \A j \in 1..n :
                 /\ llm_outcomes[j] = "none" <=> search_results[j] = "Error"
                 /\ llm_outcomes[j] # "ok" => all_extracted_companies[j] = <<>>
           /\ extracted_after_search = SearchPhase(others, max_companies).extracted
           /\ extracted_companies = Aggregate(others, news_companies, max_companies).extracted

\* the first search failed, the second strategy's extraction raised, and the
\* third strategy alone gave the entities
C27_Witness ==
    /\ AggReturned
    /\ search_results = <<"Error", "text", "text">>
    /\ llm_outcomes = <<"none", "raise", "ok">>
    /\ all_extracted_companies = <<<<>>, <<>>, <<cB, cA2>>>>
    /\ extracted_after_search = <<cB, cA2>>

(***************************************************************************)
(* Claims about the evaluation stage (specification SpecEval)              *)
(***************************************************************************)
EvalReturned == run_status = "running" /\ active = {}

Running(n) == run_status = "running" /\ active = {n}

\* C29: frame of each stage.  In every step of a run the strategies change only
\* in a step of the Query stage, and then become one of the LLM's responses
\* whatever they were before; extracted_companies changes only in a step of the
\* Aggregation stage; search_results_serper (its keys and the contents of its
\* lists) and iteration_count change only in a step of the Search stage;
\* quality_metrics changes only in a step of the QualityEvaluate stage; and
\* search_depth, max_parallel_searches and max_iterations never change, nor do
\* the fields no stage of the graph owns.
C29_StageFrames ==
    [][ /\ search_strategies_generated' # search_strategies_generated
            => /\ Running("QueryAgent")
               /\ search_strategies_generated' \in StrategyLists
        /\ extracted_companies' # extracted_companies
            => Running("CompanyAggregatorAgent")
        /\ (\/ search_results_serper' # search_results_serper
            \/ list_objects' # list_objects
            \/ iteration_count' # iteration_count)
            => Running("SearchAgent")
        /\ quality_metrics' # quality_metrics
            => Running("QualityEvaluatorAgent")
        /\ UNCHANGED <<search_depth, max_parallel_searches, max_iterations,
                       serper_api_key, final_findings, search_results_website>>
      ]_vars

\* the Query stage has just run again after a decision to continue and answered
\* with one strategy: the entities, the evidence, the counter and the metrics of
\* the first pass are as that pass left them
C29_Witness ==
    /\ Running("CompanyAggregatorAgent")
    /\ decision = "continue"
    /\ passes = 1
    /\ search_strategies_generated = <<Strategy(1)>>
    /\ Len(extracted_companies) = 2
    /\ iteration_count = 1
    /\ DOMAIN search_results_serper # {}
    /\ quality_metrics = QualityMetrics(79, 75)

(***************************************************************************)
(* Claims about deduplication (specification SpecAgg)                      *)
(***************************************************************************)
\* no two entries of the sequence have the same domain
NoDomainTwice(companies) ==
    \A i, j \in DOMAIN companies :
        companies[i].domain = companies[j].domain => i = j

\* C30: dedup idempotence - for the candidate lists the extraction handed to
\* the Aggregation stage, the stage's dedup loop applied to its own output
\* yields that output again, and the output holds no domain twice; the same
\* holds for deduplicate_results keyed by domain, which is also idempotent
\* with its default key.
C30_DedupIdempotent ==
    AggReturned =>
        LET max_companies == MaxCompaniesOf(search_depth)
            once == SearchPhase(all_extracted_companies, max_companies).extracted
            twice == SearchPhase(<<once>>, max_companies).extracted
            flat == Flatten(all_extracted_companies)
        IN  /\ once = extracted_after_search
            /\ twice = once
            /\ NoDomainTwice(once)
            /\ \A key_func \in {"domain", "str"} :
                  deduplicate_results(deduplicate_results(flat, key_func), key_func)
                     = deduplicate_results(flat, key_func)
            /\ NoDomainTwice(deduplicate_results(flat, "domain"))
            /\ Len(Flatten(all_extracted_companies)) < max_companies
                  => deduplicate_results(flat, "domain") = once

\* five candidates of two domains, three of them repeats, went through the dedup
C30_Witness ==
    /\ AggReturned
    /\ all_extracted_companies = << <<cA, cA2>>, <<cB, cA2>>, <<cA>> >>
    /\ extracted_after_search = <<cA, cB>>
    /\ deduplicate_results(Flatten(all_extracted_companies), "str") = <<cA, cA2, cB>>

\* the finding of a domain in final_findings
FindingOf(d) == final_findings[CHOOSE i \in DOMAIN final_findings : final_findings[i].domain = d]

\* C31: confidence mapping - the finding of every evaluated entity carries the
\* score of the fixed table for the level the LLM reported: High -> 0.9,
\* Medium -> 0.6, Low -> 0.3, and 0.5 for every other value (in hundredths).
C31_ConfidenceMapping ==
    EvalReturned =>
       \A c \in DOMAIN extracted_companies :
          evaluations[c] = "ok" =>
             LET level == confidence_levels[c]
                 score == FindingOf(extracted_companies[c].domain).confidence_score
             IN  /\ level = "High" => score = 90
                 /\ level = "Medium" => score = 60
                 /\ level = "Low" => score = 30
                 /\ level \notin {"High", "Medium", "Low"} => score = 50

\* three entities evaluated with an unknown, a Medium and a Low level
C31_Witness ==
    /\ EvalReturned
    /\ extracted_companies = <<cB, cC, cA>>
    /\ confidence_levels = <<"Unsure", "Medium", "Low">>
    /\ [i \in 1..3 |-> final_findings[i].confidence_score] = <<50, 60, 30>>

(***************************************************************************)
(* Claims about the queries built for a company (specification SpecSearch) *)
(***************************************************************************)
\* the query holds the name, the domain or the first word of the name, letter
\* case set aside
MentionsCompany(company, query) ==
    LET name == LowerSeq(Words(company.name))
        q == LowerSeq(query)
    IN  \/ Contains(name, q)
        \/ Contains(<<Lower(company.domain)>>, q)
        \/ Contains(<<name[1]>>, q)

\* C32: query enhancement - whatever the query LLM answered for a company,
\* build_queries_async returned between 1 and 5 queries, each of which mentions
\* the company; when the LLM answered with queries, the first five are
\* returned in order, a query that already held (case-insensitively) the name,
\* the domain or the first word of the name unchanged and every other query
\* with the company name in front.
C32_QueryEnhancement ==
    SearchReturned =>
       \A c \in DOMAIN extracted_companies :
          LET company == extracted_companies[c]
              answer == query_answers[c]
              returned == all_company_queries[c]
          IN  answer.kind \in {"ok", "raise"} =>
                 /\ Len(returned) \in 1..5
                 /\ \A i \in DOMAIN returned : MentionsCompany(company, returned[i])
                 /\ (answer.kind = "ok" /\ answer.queries # <<>>) =>
                       /\ Len(returned) = IF Len(answer.queries) < 5
                                          THEN Len(answer.queries) ELSE 5
                       /\ \A i \in DOMAIN returned :
                             returned[i] = IF MentionsCompany(company, answer.queries[i])
                                           THEN answer.queries[i]
                                           ELSE Words(company.name) \o answer.queries[i]

\* six queries were answered for Stripe: five came back, the second (domain)
\* and the fifth (lower-case name) unchanged, the others with the name in front
C32_Witness ==
    /\ SearchReturned
    /\ extracted_companies = <<cA>>
    /\ Len(query_answers[1].queries) = 6
    /\ all_company_queries[1] = << <<"Stripe", "ai">>, <<"stripe.com">>, <<"Stripe", "ml">>,
                                   <<"Stripe", "fraud">>, <<"stripe">> >>

(***************************************************************************)
(* Claims about progress of the fan-out (specification SpecFanLive)        *)
(***************************************************************************)
\* every item was dispatched and executed, the barrier is passed and every
\* slot is free again
AllExecuted ==
    /\ fo_phase = "returned"
    /\ \A i \in 1..fo_items : task[i] = "done" /\ outcome[i] \in {"ok", "raise"}
    /\ Len(completion) = fo_items
    /\ sem_value = fo_limit

Max(a, b) == IF a >= b THEN a ELSE b

\* C34: in every state of a run the API starts (final_findings and
\* quality_metrics empty at the start), final_findings and quality_metrics are
\* still empty; every decision of the continuation predicate is the one of the
\* iteration limit alone (continue exactly when the passes made are fewer than
\* max_iterations); and a run that ended made exactly max(1, max_iterations)
\* passes.
C34_FindingsStayEmpty ==
    /\ final_findings = <<>>
    /\ quality_metrics = EmptyDict
    /\ decision # "none" => (decision = "continue" <=> passes < max_iterations)
    /\ run_status = "ended" => passes = Max(1, max_iterations)

\* a session with max_iterations = 3 whose run ended after its third pass
C34_Witness ==
    /\ job_status = "processing"
    /\ run_status = "ended"
    /\ max_iterations = 3
    /\ passes = 3
    /\ decision = "stop"
    /\ extracted_companies # <<>>

Begins(t) ==
    /\ st_pc[t] = "idle"
    /\ <<st_pc[t], st_key[t], st_response[t], st_return[t]>>'
          # <<st_pc[t], st_key[t], st_response[t], st_return[t]>>

\* sub-task t's request comes back in this step
Ends(t) == st_pc[t] = "requesting" /\ st_pc'[t] = "idle"

\* C36: failed external calls are never cached - in every step, an entry is
\* written to the cache only by a sub-task whose request came back with 200,
\* under that sub-task's key; a sub-task whose request came back with another
\* status or raised leaves the cache as it was and returns the error marker; a
\* sub-task that begins makes the external request unless the cache holds an
\* unexpired non-empty entry for its key, and then returns that entry's value
\* without a request.
C36_FailuresNotCached ==
    [][ /\ \A k \in DOMAIN cache' :
              (k \notin DOMAIN cache \/ cache'[k] # cache[k]) =>
                 \E t \in Subtasks :
                    Ends(t) /\ st_key[t] = k /\ st_response'[t] = "200"
        /\ \A t \in Subtasks :
              (Ends(t) /\ st_response'[t] \in {"non200", "exception"}) =>
                 /\ cache' = cache
                 /\ st_return'[t] = "Error"
        /\ \A t \in Subtasks :
              Begins(t) =>
                 LET k == st_key'[t]
                     live == /\ k \in DOMAIN cache
                             /\ cache[k].expiry > clock
                             /\ cache[k].value # ""
                 IN  IF live
                     THEN /\ st_pc'[t] = "idle"
                          /\ st_response'[t] = "cached"
                          /\ st_return'[t] = cache[k].value
                     ELSE st_pc'[t] = "requesting"
      ]_vars

\* the request of the first sub-task for k2 raised and k2 has no entry, so the
\* second sub-task is requesting k2 again; k1 holds a live entry
C36_Witness ==
    /\ st_key = <<"k2", "k2">>
    /\ st_response = <<"exception", "none">>
    /\ st_return[1] = "Error"
    /\ st_pc = <<"idle", "requesting">>
    /\ "k2" \notin DOMAIN cache
    /\ "k1" \in DOMAIN cache
    /\ cache["k1"].expiry > clock

(***************************************************************************)
(* Claims about calls completing on an open breaker (SpecBreaker)          *)
(***************************************************************************)
\* C37: for every interleaving of concurrent call()s on one breaker, a call
\* that completes, successfully or not, while the state is open leaves the
\* state open; the state leaves open only for half-open, and only in the step
\* in which a new call() is made at a time at which recovery_timeout has
\* elapsed since the last recorded failure.
C37_LateCompletionKeepsOpen ==
    [][ /\ \A t \in Callers :
              (cb_state = "OPEN" /\ call_pc[t] = "in_func" /\ call_pc'[t] = "idle")
                 => cb_state' = "OPEN"
        /\ (cb_state = "OPEN" /\ cb_state' # "OPEN") =>
              /\ cb_state' = "HALF_OPEN"
              /\ \E t \in Callers : call_pc[t] = "idle" /\ call_pc'[t] = "in_func"
              /\ calls' = calls + 1
              /\ last_failure_time # NoTime
              /\ now - last_failure_time >= cb_config.recovery_timeout
      ]_vars

\* the breaker is open and a call admitted while it was closed has returned
\* its result since: only such a success counts 1 on an open breaker
C37_Witness ==
    /\ cb_state = "OPEN"
    /\ success_count = 1
    /\ failure_count = 0
    /\ \E t \in Callers : call_entered[t] = "CLOSED" /\ call_result[t] = "result"
    /\ \A t \in Callers : call_pc[t] = "idle"

(***************************************************************************)
(* Claims about the news extractor's fan-out (specification SpecNews)      *)
(***************************************************************************)
\* the units' lists when the queries are filtered one after the other in
\* query order
RECURSIVE InQueryOrder(_, _, _)
InQueryOrder(responses, q, seen) ==
    IF q > Len(responses) THEN <<>>
    ELSE LET r == process_single_query(responses[q], seen)
         IN  <<r.unique>> \o InQueryOrder(responses, q + 1, r.seen)

\* C38: the list the news extractor returns depends only on the query order
\* and on each query's extraction result, not on the order in which the units
\* complete: it is the list obtained by filtering the queries' results in
\* query order, so that the entity kept for a domain seen by several queries
\* is the one of the earliest query.
C38_NewsResultIndependentOfCompletion ==
    nx_phase = "returned" =>
       nx_all_companies = CombineResults(InQueryOrder(nx_responses, 1, {}),
                                         MaxCompaniesOf(search_depth))

(***************************************************************************)
(* C39: the events of /research/stream                                     *)
(***************************************************************************)
NonBlankLine(line) == line # <<>>
IsLog(event) == event.type = "log"

\* the complete, non-blank lines of everything the workflow thread wrote
WrittenLines ==
    LET pieces == split(sx_stdout)
    IN SelectSeq([i \in 1..(Len(pieces) - 1) |-> strip(pieces[i])], NonBlankLine)

\* the messages of the 'log' events yielded so far
YieldedLogs ==
    LET logs == SelectSeq(sx_yielded, IsLog)
    IN [i \in DOMAIN logs |-> logs[i].message]

Positions(type) == {i \in DOMAIN sx_yielded : sx_yielded[i].type = type}

LogsBefore(r) ==
    LET logs == SelectSeq(SubSeq(sx_yielded, 1, r - 1), IsLog)
    IN [i \in DOMAIN logs |-> logs[i].message]

\* C39: every complete log line the workflow thread wrote is yielded, in the
\* order written and before the single 'results' event; 'results' precedes
\* 'complete'; and when the workflow raises, one 'error' event is yielded and
\* neither 'results' nor 'complete' is.
C39_StreamEventOrder ==
    /\ Cardinality(Positions("results")) <= 1
    /\ Len(YieldedLogs) <= Len(WrittenLines)
    /\ YieldedLogs = SubSeq(WrittenLines, 1, Len(YieldedLogs))
    /\ \A r \in Positions("results") :
          /\ LogsBefore(r) = WrittenLines
          /\ \A l \in Positions("log") : l < r
    /\ \A c \in Positions("complete") : \E r \in Positions("results") : r < c
    /\ sx_pc = "end" => YieldedLogs = WrittenLines
    /\ sx_future = "raised" =>
          /\ Positions("results") = {}
          /\ Positions("complete") = {}
          /\ sx_pc = "end" => Cardinality(Positions("error")) = 1

====
